---- MODULE Spec2Model ----
(***************************************************************************)
(* Model of the parchment-landing repository: the two server handlers      *)
(* (POST /api/waitlist, GET /api/auth-status), the ab_variant middleware,  *)
(* the texture loader chains of the HeroGlobe components, and the landing  *)
(* page with its globe mover.                                              *)
(***************************************************************************)
EXTENDS Integers, Sequences, FiniteSets, TLC

(***************************************************************************)
(* Bounds                                                                  *)
(***************************************************************************)
\* longest email string enumerated for the validation check
MaxLen == 6
\* number of POST /api/waitlist requests that may be in flight or finished
NReq == 2
\* the wall clock (new Date()) runs from 0 to MaxClock
MaxClock == 1
\* the most scroll and resize events between two animation frames
MaxEvents == 2
\* how far performance.now() runs, in steps of TickMs
MaxTicks == 9
\* a target's top edge lies between -MaxTop and MaxTop (half pixels)
MaxTop == 2
\* a target's width and height are at most MaxSize (half pixels)
MaxSize == 3

\* the pointer moves delivered to a globe component
MaxMoves == 2
\* the most arguments a render script is given
MaxArgs == 2

(***************************************************************************)
(* JavaScript values                                                       *)
(***************************************************************************)
\* the value `undefined` (a missing cookie, a missing body field)
Undefined == "<undefined>"

\* JavaScript truthiness of a string-or-undefined value: !v is true for
\* undefined and for the empty string
Truthy(v) == v # Undefined /\ v # ""

(***************************************************************************)
(* Strings as sequences of characters                                      *)
(***************************************************************************)
Chars == {"a", "B", "@", ".", " "}

IsSpace(c) == c = " "

\* String.prototype.toLowerCase on one character
LowerChar(c) == IF c = "B" THEN "b" ELSE c

toLowerCase(s) == [i \in DOMAIN s |-> LowerChar(s[i])]

RECURSIVE trimStart(_)
trimStart(s) ==
  IF s = <<>> THEN s
  ELSE IF IsSpace(Head(s)) THEN trimStart(Tail(s)) ELSE s

RECURSIVE trimEnd(_)
trimEnd(s) ==
  IF s = <<>> THEN s
  ELSE IF IsSpace(s[Len(s)]) THEN trimEnd(SubSeq(s, 1, Len(s) - 1)) ELSE s

\* String.prototype.trim
trim(s) == trimEnd(trimStart(s))

(***************************************************************************)
(* The regular expression /^\S+@\S+\.\S+$/ as its automaton.               *)
(* State 0: start; 1: inside the first \S+; 2: just after '@';             *)
(* 3: inside the second \S+; 4: just after '.'; 5: inside the third \S+.   *)
(***************************************************************************)
RegexStep(q, c) ==
  CASE q = 0 -> IF IsSpace(c) THEN {} ELSE {1}
    [] q = 1 -> IF IsSpace(c) THEN {} ELSE (IF c = "@" THEN {1, 2} ELSE {1})
    [] q = 2 -> IF IsSpace(c) THEN {} ELSE {3}
    [] q = 3 -> IF IsSpace(c) THEN {} ELSE (IF c = "." THEN {3, 4} ELSE {3})
    [] q = 4 -> IF IsSpace(c) THEN {} ELSE {5}
    [] q = 5 -> IF IsSpace(c) THEN {} ELSE {5}

RECURSIVE RegexRun(_, _)
RegexRun(Q, s) ==
  IF s = <<>> THEN Q
  ELSE RegexRun(UNION {RegexStep(q, Head(s)) : q \in Q}, Tail(s))

\* /^\S+@\S+\.\S+$/.test(s)
EmailRegexTest(s) == 5 \in RegexRun({0}, s)

(***************************************************************************)
(* State                                                                   *)
(***************************************************************************)
VARIABLES
  submissions,  \* waitlist.post.ts: the module-level submissions array
  reqs,         \* the POST /api/waitlist requests: position of each handler
  now,          \* the wall clock read by new Date()
  jar,          \* the client's ab_variant cookie (Undefined when it has none)
  abLast,       \* the last middleware call: cookie received, Set-Cookie sent
  authLast,     \* the last GET /api/auth-status call: cookie, response and
                \* the number of submissions at that time
  authSeen,     \* per session cookie, the first response it was given
  kind,         \* which globe component is mounted
  phase,        \* "mounted" (before init), "running", "unmounted"
  texRequested, \* the URLs handed to loader.load so far
  texLoaded,    \* the requested URLs whose load succeeded
  texFailed,    \* the requested URLs whose load failed
  earthMat,     \* the earth material: its texture slots, needsUpdate and
                \* userData.shader
  programs,     \* the keys of the programs the renderer has built for it
  oceanTex,     \* the module-level oceanTex
  nightTex,     \* the module-level nightTex
  cloudsTex,    \* the module-level cloudsTex
  cloudMeshes,  \* the clouds textures of the clouds meshes added to the scene
  albedoLoaded,
  firstFrameRendered,
  readyEmitted,
  readyCount,   \* how many times emit("ready") ran
  warnings,     \* the messages passed to console.warn
  rotationX,    \* sphere.rotation.x, the pitch, in units of 0.00002 rad
  rotationY,    \* what onMove and onScroll have added to the initial
                \* sphere.rotation.y, in the same units; the spin and the
                \* inertia that animate adds in every frame are not kept
  rotVelY,      \* the inertia, in the same units per frame
  isDragging,
  lastX,
  lastY,
  prevScrollY,
  moves,        \* the pointer moves delivered so far
  pointerDown,  \* the last pointer event on the canvas or the window, moves
                \* aside, was a down on the canvas
  movedIdle,    \* a pointer move was delivered while pointerDown was false
  pagePhase,    \* the page: "setup" (before onMounted), "mounted", "unmounted"
  heroTargetRef, \* whether the template ref is bound to its element
  tryTargetRef,
  globeRef,
  heroBox,      \* the hero target's box in the scrolled document
  tryBox,       \* the try target's box
  innerHeight,  \* the viewport height
  scrollTop,    \* the scroll position of <main>
  perfNow,      \* performance.now()
  rafQueue,     \* the callbacks given to requestAnimationFrame, in order
  running,      \* the callbacks of the frame being run that are still to run
  attached,     \* useGlobeMover: keepAligned is a scroll and resize listener
  alignScheduled,
  activeTarget, \* "hero", "try" or NoTarget
  setters,      \* whether setX, setY, setSX, setSY have been made
  baseWidth,    \* <<>> for null, else <<pixels>>
  baseHeight,
  globeTo,      \* where the globe element was last sent: <<>> or <<record>>
  handlersOn,   \* the page: scrollHandler and resizeHandler are listeners
  switchScheduled,
  lastSwitchAt,
  heroRect,     \* the cached rects: <<>> for null, else <<rect>>
  tryRect,
  evts,         \* scroll and resize events handed to keepAligned since the
                \* last frame began
  frameEvts,    \* evts, as it was when the last frame began
  frameAligns,  \* how often the keepAligned callback ran in the last frame
  switchLog,    \* the times at which updateActiveTarget changed activeTarget
  switchSent,   \* since the last resize: the target and the rect of each
                \* positionGlobeToRect call made by updateActiveTarget
  ended,        \* onMounted's count of animationend events
  endListeners, \* the .hero-tilt elements whose animationend listener is
                \* still registered
  tiltListeners,\* how often updateTilt was added as a scroll listener
  elStyle,      \* the inline style of each .hero-tilt element
  scrolledFlat, \* a scroll event came while updateTilt was no listener
  scrolledTilt, \* a scroll event came while updateTilt was a listener
  script,       \* which albedo render script is run: "sh" or "node"
  environ,      \* its environment: MAPBOX_TOKEN and MAPBOX_API_TOKEN
  argv,         \* its arguments
  scriptPc,     \* where it is: "start", "fetch", "patch", "render",
                \* "reproject", "exited"
  exitStatus,
  token,        \* the node script's args.token
  fetched,      \* the style was asked of api.mapbox.com
  rendered,     \* the renderer was run
  written       \* the files written so far

serverVars == <<submissions, reqs, now, jar, abLast, authLast, authSeen>>

loaderVars == <<texRequested, texLoaded, texFailed>>

readyVars == <<albedoLoaded, firstFrameRendered, readyEmitted, readyCount>>

sceneVars ==
  <<earthMat, programs, oceanTex, nightTex, cloudsTex, cloudMeshes>>

pointerVars ==
  <<isDragging, lastX, lastY, prevScrollY, moves, pointerDown, movedIdle>>

dragVars == <<rotationX, rotationY, rotVelY, pointerVars>>

globeVars ==
  <<kind, phase, loaderVars, readyVars, sceneVars, warnings, dragVars>>

layoutVars ==
  <<heroTargetRef, tryTargetRef, globeRef, heroBox, tryBox, innerHeight,
    scrollTop>>

frameVars == <<perfNow, rafQueue, running>>

moverVars ==
  <<attached, alignScheduled, activeTarget, setters, baseWidth, baseHeight,
    globeTo>>

switchVars ==
  <<handlersOn, switchScheduled, lastSwitchAt, heroRect, tryRect>>

ghostVars == <<evts, frameEvts, frameAligns, switchLog, switchSent>>

tiltVars ==
  <<ended, endListeners, tiltListeners, elStyle, scrolledFlat, scrolledTilt>>

pageVars ==
  <<pagePhase, layoutVars, frameVars, moverVars, switchVars, ghostVars,
    tiltVars>>

scriptVars ==
  <<script, environ, argv, scriptPc, exitStatus, token, fetched, rendered,
    written>>

vars == <<serverVars, globeVars, pageVars, scriptVars>>

ReqIds == 1..NReq

NoResp == [status |-> 0]
NoCall == [called |-> FALSE]

(***************************************************************************)
(* POST /api/waitlist                                                      *)
(***************************************************************************)
Str(email) == [defined |-> TRUE, chars |-> email]
NoStr == [defined |-> FALSE, chars |-> <<>>]

\* the parsed request body; NoBody is a request without one
Body(email, variant) == [present |-> TRUE, email |-> email, variant |-> variant]
NoBody == [present |-> FALSE, email |-> NoStr, variant |-> Undefined]

\* line 10: body?.email?.trim().toLowerCase()
NormalizedEmail(body) ==
  IF body.present /\ body.email.defined
    THEN Str(toLowerCase(trim(body.email.chars)))
    ELSE NoStr

\* line 11: (body?.variant || "A")
VariantOf(body) ==
  IF body.present /\ Truthy(body.variant) THEN body.variant ELSE "A"

\* a plausible slip: the pattern without its domain part, /^\S+@\S+$/
IsInvalidEmailNoDomain(email) ==
  \/ ~email.defined
  \/ email.chars = <<>>
  \/ 3 \notin RegexRun({0}, email.chars)

\* line 13: !email || !/^\S+@\S+\.\S+$/.test(email)
IsInvalidEmail(email) ==
  \/ ~email.defined
  \/ email.chars = <<>>
  \/ ~EmailRegexTest(email.chars)

InvalidEmailError ==
  [status |-> 400, statusMessage |-> "Invalid email", message |-> "Invalid email"]

ThanksResponse ==
  [status |-> 200, ok |-> TRUE, message |-> "Thanks! We will be in touch soon."]

\* lines 22-27: the entry pushed for a request
Entry(body, ip) ==
  [email |-> NormalizedEmail(body).chars,
   variant |-> VariantOf(body),
   ts |-> now,
   ip |-> IF Truthy(ip) THEN ip ELSE Undefined]

\* a plausible slip: unshift instead of push
submissionsUnshift(list, entry) == <<entry>> \o list

\* line 22: submissions.push(entry)
submissionsPush(list, entry) == Append(list, entry)

\* line 9, up to the await: the request arrives and the handler suspends in
\* readBody; R is the set of requests (body, ip) clients may send
WaitlistStart(r, R) ==
  /\ reqs[r].pc = "idle"
  /\ \E q \in R :
       reqs' = [reqs EXCEPT ![r] =
                  [pc |-> "readBody", body |-> q.body, ip |-> q.ip, resp |-> NoResp]]
  /\ UNCHANGED <<submissions, now, jar, abLast, authLast, authSeen, globeVars,
                 pageVars,
                 scriptVars>>

\* a plausible slip: the entry is pushed before the email is validated
WaitlistResumePushFirst(r) ==
  /\ reqs[r].pc = "readBody"
  /\ LET body == reqs[r].body
         email == NormalizedEmail(body)
     IN /\ submissions' = submissionsPush(submissions, Entry(body, reqs[r].ip))
        /\ reqs' = [reqs EXCEPT ![r].pc = "done",
                                ![r].resp = IF IsInvalidEmail(email)
                                              THEN InvalidEmailError
                                              ELSE ThanksResponse]
  /\ UNCHANGED <<now, jar, abLast, authLast, authSeen, globeVars, pageVars,
                 scriptVars>>

\* a plausible slip: the body is kept in a module-level variable, so a
\* resumed handler sees the body of the request that arrived last; here the
\* body of any other suspended request
WaitlistResumeSharedBody(r) ==
  /\ reqs[r].pc = "readBody"
  /\ \E r2 \in ReqIds :
       /\ reqs[r2].pc = "readBody"
       /\ LET body == reqs[r2].body
              email == NormalizedEmail(body)
          IN IF IsInvalidEmail(email)
               THEN /\ reqs' = [reqs EXCEPT ![r].pc = "done",
                                            ![r].resp = InvalidEmailError]
                    /\ UNCHANGED submissions
               ELSE /\ submissions' =
                         submissionsPush(submissions, Entry(body, reqs[r].ip))
                    /\ reqs' = [reqs EXCEPT ![r].pc = "done",
                                            ![r].resp = ThanksResponse]
  /\ UNCHANGED <<now, jar, abLast, authLast, authSeen, globeVars, pageVars,
                 scriptVars>>

\* lines 9-29, from the await on: readBody resolves, the handler validates
\* and pushes without suspending again
WaitlistResume(r) ==
  /\ reqs[r].pc = "readBody"
  /\ LET body == reqs[r].body
         email == NormalizedEmail(body)
     IN IF IsInvalidEmail(email)
          THEN /\ reqs' = [reqs EXCEPT ![r].pc = "done",
                                       ![r].resp = InvalidEmailError]
               /\ UNCHANGED submissions
          ELSE /\ submissions' =
                    submissionsPush(submissions, Entry(body, reqs[r].ip))
               /\ reqs' = [reqs EXCEPT ![r].pc = "done",
                                       ![r].resp = ThanksResponse]
  /\ UNCHANGED <<now, jar, abLast, authLast, authSeen, globeVars, pageVars,
                 scriptVars>>

\* time passes between two reads of new Date()
Tick ==
  /\ now < MaxClock
  /\ now' = now + 1
  /\ UNCHANGED <<submissions, reqs, jar, abLast, authLast, authSeen, globeVars,
                 pageVars,
                 scriptVars>>

(***************************************************************************)
(* The ab_variant middleware                                               *)
(***************************************************************************)
\* line 4: Math.random() < 0.5 ? "A" : "B"; below is the outcome of the
\* comparison
Roll(below) == IF below THEN "A" ELSE "B"

\* a plausible slip: the cookie is set for one day
AbVariantCookieOneDay(roll) ==
  [name |-> "ab_variant", value |-> roll, httpOnly |-> FALSE,
   sameSite |-> "lax", path |-> "/", maxAge |-> 60 * 60 * 24]

\* lines 5-10: the cookie handed to setCookie
AbVariantCookie(roll) ==
  [name |-> "ab_variant", value |-> roll, httpOnly |-> FALSE,
   sameSite |-> "lax", path |-> "/", maxAge |-> 60 * 60 * 24 * 365]

\* lines 1-12: one call of the middleware for a request of the client; the
\* client stores the cookie of a Set-Cookie header it receives
AbVariantMiddleware ==
  /\ LET existing == jar
     IN IF ~Truthy(existing)
          THEN \E below \in BOOLEAN :
                 LET roll == Roll(below)
                 IN /\ abLast' = [called |-> TRUE, existing |-> existing,
                                  setCookies |-> <<AbVariantCookie(roll)>>]
                    /\ jar' = roll
          ELSE /\ abLast' = [called |-> TRUE, existing |-> existing,
                             setCookies |-> <<>>]
               /\ jar' = jar
  /\ UNCHANGED <<submissions, reqs, now, authLast, authSeen, globeVars,
                 pageVars,
                 scriptVars>>

(***************************************************************************)
(* GET /api/auth-status                                                    *)
(***************************************************************************)
JsNull == [type |-> "null"]
JsUser(id) == [type |-> "object", id |-> id]

\* a plausible slip: the two fields test the cookie differently
AuthStatusResponsePresence(session) ==
  [authenticated |-> Truthy(session),
   user |-> IF session # Undefined THEN JsUser("user_123") ELSE JsNull]

\* a plausible slip: the response leaks shared state, the waitlist array
AuthStatusResponseShared(session) ==
  [authenticated |-> Truthy(session) \/ Len(submissions) > 0,
   user |-> IF Truthy(session) \/ Len(submissions) > 0
              THEN JsUser("user_123") ELSE JsNull]

\* lines 3-6: Boolean(session) and session ? { id } : null
AuthStatusResponse(session) ==
  [authenticated |-> Truthy(session),
   user |-> IF Truthy(session) THEN JsUser("user_123") ELSE JsNull]

\* lines 1-7: one request carrying the session cookie `session`
AuthStatus(session) ==
  /\ LET resp == AuthStatusResponse(session)
         at == Len(submissions)
     IN /\ authLast' = [called |-> TRUE, session |-> session, resp |-> resp,
                        at |-> at]
        /\ authSeen' = IF authSeen[session].called
                         THEN authSeen
                         ELSE [authSeen EXCEPT ![session] =
                                 [called |-> TRUE, resp |-> resp, at |-> at]]
  /\ UNCHANGED <<submissions, reqs, now, jar, abLast, globeVars, pageVars,
                 scriptVars>>

(***************************************************************************)
(* The globe components: texture loading and the ready event               *)
(***************************************************************************)
\* index.vue, HeroGlobe with a MeshStandardMaterial
AlbedoWebp == "/textures/globe/earth_albedo.webp"
AlbedoPng == "/textures/globe/earth_albedo.png"
AlbedoJpg == "/textures/earth-blue-marble.jpg"
BumpWebp == "/textures/globe/earth_bump.webp"
BumpPng == "/textures/globe/earth_bump.png"
BumpJpg == "/textures/earth_bump.jpg"
BathyPng == "/textures/ne_bathy.png"
RoughnessPng == "/textures/globe/earth_roughness.png"
NightLightsPng == "/textures/night_lights.png"
CloudsWebp == "/textures/globe/clouds.webp"
CloudsPng == "/textures/clouds.png"
\* the texture made by generateCloudsTexture
ProceduralClouds == "generateCloudsTexture(1024, 512)"
\* the globe with a ShaderMaterial
ShaderAlbedoPng == "/textures/earth_albedo.png"
ShaderCloudsJpg == "/textures/clouds.jpg"

MissingAlbedo == "[HeroGlobe] Missing albedo in /textures/globe and bundled"
MissingBump == "[HeroGlobe] Missing bump maps and bathymetry"
MissingNightLights ==
  "[HeroGlobe] Missing /textures/night_lights.png (night lights disabled)"
MissingClouds ==
  "[HeroGlobe] Missing clouds textures, generating procedural clouds"

\* the older HeroGlobe component (its URLs are among those above)
MissingLegacyAlbedo == "[HeroGlobe] Missing /textures/earth-blue-marble.jpg"
MissingLegacyBump ==
  "[HeroGlobe] Missing /textures/earth_bump.jpg and /textures/ne_bathy.png"
MissingLegacyClouds ==
  "[HeroGlobe] Missing /textures/clouds.png, generating procedural clouds"

GlobeKinds == {"standard", "shader", "legacy"}

\* the URLs whose load is in flight
Loading == texRequested \ (texLoaded \cup texFailed)

\* userData.shader before onBeforeCompile has run
NoShader == [set |-> FALSE, tClouds |-> Undefined, hasClouds |-> 0]

\* the earth material as constructed: no texture, no program built yet
NoMaps ==
  [map |-> Undefined, bumpMap |-> Undefined, bumpScale |-> Undefined,
   roughnessMap |-> Undefined, metalnessMap |-> Undefined,
   emissiveMap |-> Undefined, needsUpdate |-> TRUE, shader |-> NoShader]

MapSlots == {"map", "bumpMap", "roughnessMap", "metalnessMap", "emissiveMap"}

\* what the renderer's program for a MeshStandardMaterial depends on: the
\* texture slots in use (USE_MAP, USE_BUMPMAP, ...)
ProgramKey(mat) == {f \in MapSlots : mat[f] # Undefined}

\* earthMat.onBeforeCompile: the uniforms it gives the program being built,
\* kept as userData.shader
onBeforeCompile(tex) == [set |-> TRUE, tClouds |-> tex, hasClouds |-> 0]

\* renderer.render(scene, camera), as far as the earth material goes: a
\* material changed since its last render gets the program of its key,
\* which is built, after onBeforeCompile (when the material has one), unless
\* the renderer holds it already
renderEarth(mat, key, hooked) ==
  LET compiles == mat.needsUpdate /\ key \notin programs
  IN /\ programs' = IF compiles THEN programs \cup {key} ELSE programs
     /\ earthMat' =
          [mat EXCEPT !.needsUpdate = FALSE,
                      !.shader = IF compiles /\ hooked
                                   THEN onBeforeCompile(cloudsTex) ELSE @]

\* a maybeEmitReady that does not look at albedoLoaded
EmitsReadyFrameOnly(emitted, albedo, frame) == ~emitted /\ frame

\* maybeEmitReady: whether emit("ready") runs now
EmitsReady(emitted, albedo, frame) == ~emitted /\ albedo /\ frame

\* maybeEmitReady, as the step it takes on readyEmitted and the emit count
maybeEmitReady(albedo, frame) ==
  IF EmitsReady(readyEmitted, albedo, frame)
    THEN /\ readyEmitted' = TRUE
         /\ readyCount' = readyCount + 1
    ELSE UNCHANGED <<readyEmitted, readyCount>>

\* Angles are in units of 0.00002 rad, the threshold under which animate
\* sets the inertia to zero.
\* sens, 0.004 rad of yaw for a pixel
Sens == 200

\* sens * 0.2, the pitch for a pixel, and the inertia for a pixel
SensFifth == 40

\* 0.0006 rad of yaw for a pixel of scroll
ScrollSens == 30

\* 0.6 rad, the most the globe is pitched either way
PitchLimit == 30000

\* sphere.rotation.x as init() sets it: 0.18, or 0.0 in the shader globe
InitialPitch(k) == IF k = "shader" THEN 0 ELSE 9000

\* a clamp that lets every value through
clampNone(value, lo, hi) == value

\* THREE.MathUtils.clamp
clamp(value, lo, hi) ==
  IF value < lo THEN lo ELSE IF value > hi THEN hi ELSE value

\* rotVelY *= 0.96, then zero when under one unit; the product is cut to a
\* whole number of units
Decay(v) == IF v < 0 THEN -((-v * 24) \div 25) ELSE (v * 24) \div 25

\* index.vue, onMounted's tryInit: init() once the canvas exists. init()
\* builds the scene, starts the first load of every chain and calls
\* animate(), which renders the first frame
GlobeInit ==
  /\ kind = "standard"
  /\ phase = "mounted"
  /\ phase' = "running"
  /\ renderEarth(NoMaps, ProgramKey(NoMaps), TRUE)
  /\ texRequested' =
       {AlbedoWebp, BumpWebp, RoughnessPng, NightLightsPng, CloudsWebp}
  /\ firstFrameRendered' = TRUE
  /\ maybeEmitReady(albedoLoaded, TRUE)
  /\ rotationX' = InitialPitch(kind)
  /\ rotationY' = 0
  /\ UNCHANGED <<kind, texLoaded, texFailed, albedoLoaded, oceanTex, nightTex,
                 cloudsTex, cloudMeshes, warnings, rotVelY, pointerVars,
                 serverVars, pageVars,
                 scriptVars>>

\* the shader globe's init(): two loads, then animate()
ShaderGlobeInit ==
  /\ kind = "shader"
  /\ phase = "mounted"
  /\ phase' = "running"
  /\ renderEarth(NoMaps, {}, FALSE)
  /\ texRequested' = {ShaderAlbedoPng, ShaderCloudsJpg}
  /\ firstFrameRendered' = TRUE
  /\ maybeEmitReady(albedoLoaded, TRUE)
  /\ rotationX' = InitialPitch(kind)
  /\ rotationY' = 0
  /\ UNCHANGED <<kind, texLoaded, texFailed, albedoLoaded, oceanTex, nightTex,
                 cloudsTex, cloudMeshes, warnings, rotVelY, pointerVars,
                 serverVars, pageVars,
                 scriptVars>>

\* animate, as a later animation-frame callback (the same in these two
\* globes; the ShaderMaterial has no onBeforeCompile and one program)
Animate ==
  /\ kind \in {"standard", "shader"}
  /\ phase = "running"
  /\ IF kind = "standard"
       THEN renderEarth(earthMat, ProgramKey(earthMat), TRUE)
       ELSE renderEarth(earthMat, {}, FALSE)
  /\ IF ~firstFrameRendered
       THEN /\ firstFrameRendered' = TRUE
            /\ maybeEmitReady(albedoLoaded, TRUE)
       ELSE UNCHANGED <<firstFrameRendered, readyEmitted, readyCount>>
  /\ rotVelY' = Decay(rotVelY)
  /\ UNCHANGED <<kind, phase, loaderVars, albedoLoaded, oceanTex, nightTex,
                 cloudsTex, cloudMeshes, warnings, rotationX, rotationY, pointerVars,
                 serverVars, pageVars,
                 scriptVars>>

\* onBeforeUnmount (the same in every globe): the pending frame is
\* cancelled, the renderer disposed; pending loads are not cancelled
Unmount ==
  /\ phase = "running"
  /\ phase' = "unmounted"
  /\ UNCHANGED <<kind, loaderVars, readyVars, sceneVars, warnings, dragVars,
                 serverVars, pageVars,
                 scriptVars>>

\* the positions the pointer is seen at, and those the window is scrolled to
PointerXs == {0, 1}
PointerYs == {0, 800, 1600}
ScrollYs == {0, 100}

\* mousedown or touchstart on the canvas: onDown
PointerDown(x, y) ==
  /\ phase = "running"
  /\ isDragging' = TRUE
  /\ lastX' = x
  /\ lastY' = y
  /\ pointerDown' = TRUE
  /\ UNCHANGED <<kind, phase, loaderVars, readyVars, sceneVars, warnings,
                 rotationX, rotationY, rotVelY, prevScrollY, moves, movedIdle,
                 serverVars, pageVars,
                 scriptVars>>

\* mousemove on the window, or touchmove on the canvas: onMove.  The
\* listeners of the window outlive the component.
PointerMove(x, y) ==
  /\ phase \in {"running", "unmounted"}
  /\ moves < MaxMoves
  /\ moves' = moves + 1
  /\ movedIdle' = (movedIdle \/ ~pointerDown)
  /\ IF ~isDragging
       THEN UNCHANGED <<rotationX, rotationY, rotVelY, lastX, lastY>>
       ELSE LET dx == x - lastX
                dy == y - lastY
            IN /\ rotationY' = rotationY + dx * Sens
               /\ rotationX' = clamp(rotationX + dy * SensFifth,
                                     -PitchLimit, PitchLimit)
               /\ rotVelY' = dx * SensFifth
               /\ lastX' = x
               /\ lastY' = y
  /\ UNCHANGED <<kind, phase, loaderVars, readyVars, sceneVars, warnings,
                 isDragging, prevScrollY, pointerDown, serverVars, pageVars,
                 scriptVars>>

\* mouseup or touchend on the window: onUp
PointerUp ==
  /\ phase \in {"running", "unmounted"}
  /\ isDragging' = FALSE
  /\ pointerDown' = FALSE
  /\ UNCHANGED <<kind, phase, loaderVars, readyVars, sceneVars, warnings,
                 rotationX, rotationY, rotVelY, lastX, lastY, prevScrollY,
                 moves, movedIdle, serverVars, pageVars,
                 scriptVars>>

\* a scroll event of the window, scrolled to y: onScroll
WindowScroll(y) ==
  /\ phase \in {"running", "unmounted"}
  /\ y # prevScrollY
  /\ prevScrollY' = y
  /\ rotationY' = rotationY + (y - prevScrollY) * ScrollSens
  /\ UNCHANGED <<kind, phase, loaderVars, readyVars, sceneVars, warnings,
                 rotationX, rotVelY, isDragging, lastX, lastY, moves,
                 pointerDown, movedIdle, serverVars, pageVars,
                 scriptVars>>

\* a setAlbedo that does not call maybeEmitReady
AlbedoOnLoadNoEmit(url) ==
  /\ kind = "standard"
  /\ url \in Loading \cap {AlbedoWebp, AlbedoPng, AlbedoJpg}
  /\ texLoaded' = texLoaded \cup {url}
  /\ earthMat' = [earthMat EXCEPT !.map = url, !.needsUpdate = TRUE]
  /\ albedoLoaded' = TRUE
  /\ UNCHANGED <<kind, phase, texRequested, texFailed, firstFrameRendered,
                 readyEmitted, readyCount, programs, oceanTex, nightTex,
                 cloudsTex, cloudMeshes, warnings, dragVars,
                 serverVars, pageVars,
                 scriptVars>>

\* setAlbedo, the onLoad callback of every albedo candidate
AlbedoOnLoad(url) ==
  /\ kind = "standard"
  /\ url \in Loading \cap {AlbedoWebp, AlbedoPng, AlbedoJpg}
  /\ texLoaded' = texLoaded \cup {url}
  /\ earthMat' = [earthMat EXCEPT !.map = url, !.needsUpdate = TRUE]
  /\ albedoLoaded' = TRUE
  /\ maybeEmitReady(TRUE, firstFrameRendered)
  /\ UNCHANGED <<kind, phase, texRequested, texFailed, firstFrameRendered,
                 programs, oceanTex, nightTex, cloudsTex, cloudMeshes,
                 warnings, dragVars,
                 serverVars, pageVars,
                 scriptVars>>

\* what the onError callback of an albedo candidate does: the next
\* candidate it requests and the warning it logs
AlbedoNext(url) ==
  CASE url = AlbedoWebp -> [request |-> {AlbedoPng}, warn |-> {}]
    [] url = AlbedoPng -> [request |-> {AlbedoJpg}, warn |-> {}]
    [] url = AlbedoJpg -> [request |-> {}, warn |-> {MissingAlbedo}]

\* the load of an albedo candidate fails
AlbedoOnError(url) ==
  /\ kind = "standard"
  /\ url \in Loading \cap {AlbedoWebp, AlbedoPng, AlbedoJpg}
  /\ texFailed' = texFailed \cup {url}
  /\ texRequested' = texRequested \cup AlbedoNext(url).request
  /\ warnings' = warnings \cup AlbedoNext(url).warn
  /\ UNCHANGED <<kind, phase, texLoaded, readyVars, sceneVars, dragVars,
                 serverVars, pageVars,
                 scriptVars>>

\* the shader globe's setAlbedo: the texture goes to the material's map
\* uniform
ShaderAlbedoOnLoad ==
  /\ ShaderAlbedoPng \in Loading
  /\ texLoaded' = texLoaded \cup {ShaderAlbedoPng}
  /\ earthMat' =
       [earthMat EXCEPT !.map = ShaderAlbedoPng, !.needsUpdate = TRUE]
  /\ albedoLoaded' = TRUE
  /\ maybeEmitReady(TRUE, firstFrameRendered)
  /\ UNCHANGED <<kind, phase, texRequested, texFailed, firstFrameRendered,
                 programs, oceanTex, nightTex, cloudsTex, cloudMeshes,
                 warnings, dragVars,
                 serverVars, pageVars,
                 scriptVars>>

\* the shader globe's albedo load fails: loader.load was given no onError
\* callback, so nothing runs
ShaderAlbedoFails ==
  /\ ShaderAlbedoPng \in Loading
  /\ texFailed' = texFailed \cup {ShaderAlbedoPng}
  /\ UNCHANGED <<kind, phase, texRequested, texLoaded, readyVars, sceneVars,
                 warnings, dragVars,
                 serverVars, pageVars,
                 scriptVars>>

\* setBump for the first three candidates, the inline callback for the
\* bathymetry texture
BumpOnLoad(url) ==
  /\ kind = "standard"
  /\ url \in Loading \cap {BumpWebp, BumpPng, BumpJpg, BathyPng}
  /\ texLoaded' = texLoaded \cup {url}
  /\ IF url = BathyPng
       THEN /\ earthMat' = [earthMat EXCEPT !.bumpMap = url,
                                            !.bumpScale = "0.012",
                                            !.roughnessMap = url,
                                            !.metalnessMap = url,
                                            !.needsUpdate = TRUE]
            /\ oceanTex' = url
       ELSE /\ earthMat' = [earthMat EXCEPT !.bumpMap = url,
                                            !.bumpScale = "0.02",
                                            !.needsUpdate = TRUE]
            /\ UNCHANGED oceanTex
  /\ UNCHANGED <<kind, phase, texRequested, texFailed, readyVars, programs,
                 nightTex, cloudsTex, cloudMeshes, warnings, dragVars,
                 serverVars, pageVars,
                 scriptVars>>

\* a chain whose first onError asks for two candidates at once
BumpNextTwoAtOnce(url) ==
  CASE url = BumpWebp -> [request |-> {BumpPng, BumpJpg}, warn |-> {}]
    [] url = BumpPng -> [request |-> {}, warn |-> {}]
    [] url = BumpJpg -> [request |-> {BathyPng}, warn |-> {}]
    [] url = BathyPng -> [request |-> {}, warn |-> {MissingBump}]

\* what the onError callback of a bump candidate does
BumpNext(url) ==
  CASE url = BumpWebp -> [request |-> {BumpPng}, warn |-> {}]
    [] url = BumpPng -> [request |-> {BumpJpg}, warn |-> {}]
    [] url = BumpJpg -> [request |-> {BathyPng}, warn |-> {}]
    [] url = BathyPng -> [request |-> {}, warn |-> {MissingBump}]

\* the load of a bump candidate fails
BumpOnError(url) ==
  /\ kind = "standard"
  /\ url \in Loading \cap {BumpWebp, BumpPng, BumpJpg, BathyPng}
  /\ texFailed' = texFailed \cup {url}
  /\ texRequested' = texRequested \cup BumpNext(url).request
  /\ warnings' = warnings \cup BumpNext(url).warn
  /\ UNCHANGED <<kind, phase, texLoaded, readyVars, sceneVars, dragVars,
                 serverVars, pageVars,
                 scriptVars>>

\* the generated roughness map and the night lights, both optional
OptionalOnLoad(url) ==
  /\ kind = "standard"
  /\ url \in Loading \cap {RoughnessPng, NightLightsPng}
  /\ texLoaded' = texLoaded \cup {url}
  /\ IF url = RoughnessPng
       THEN /\ earthMat' = [earthMat EXCEPT !.roughnessMap = url,
                                            !.needsUpdate = TRUE]
            /\ UNCHANGED nightTex
       ELSE /\ earthMat' = [earthMat EXCEPT !.emissiveMap = url,
                                            !.needsUpdate = TRUE]
            /\ nightTex' = url
  /\ UNCHANGED <<kind, phase, texRequested, texFailed, readyVars, programs,
                 oceanTex, cloudsTex, cloudMeshes, warnings, dragVars,
                 serverVars, pageVars,
                 scriptVars>>

OptionalOnError(url) ==
  /\ kind = "standard"
  /\ url \in Loading \cap {RoughnessPng, NightLightsPng}
  /\ texFailed' = texFailed \cup {url}
  /\ warnings' = warnings \cup
       (IF url = NightLightsPng THEN {MissingNightLights} ELSE {})
  /\ UNCHANGED <<kind, phase, texRequested, texLoaded, readyVars, sceneVars,
                 dragVars,
                 serverVars, pageVars,
                 scriptVars>>

\* setupClouds: the texture is kept, a clouds mesh using it is added, and
\* the uniforms of userData.shader, when there is one, are bound to it
setupClouds(tex) ==
  /\ cloudsTex' = tex
  /\ cloudMeshes' = Append(cloudMeshes, tex)
  /\ earthMat' =
       IF earthMat.shader.set
         THEN [earthMat EXCEPT !.shader.tClouds = tex, !.shader.hasClouds = 1]
         ELSE earthMat

CloudsOnLoad(url) ==
  /\ kind = "standard"
  /\ url \in Loading \cap {CloudsWebp, CloudsPng}
  /\ texLoaded' = texLoaded \cup {url}
  /\ setupClouds(url)
  /\ UNCHANGED <<kind, phase, texRequested, texFailed, readyVars, programs,
                 oceanTex, nightTex, warnings, dragVars,
                 serverVars, pageVars,
                 scriptVars>>

\* a clouds onError that falls back to the procedural texture at once
CloudsOnErrorEager(url) ==
  /\ kind = "standard"
  /\ url \in Loading \cap {CloudsWebp, CloudsPng}
  /\ texFailed' = texFailed \cup {url}
  /\ texRequested' =
       texRequested \cup (IF url = CloudsWebp THEN {CloudsPng} ELSE {})
  /\ warnings' = warnings \cup {MissingClouds}
  /\ setupClouds(ProceduralClouds)
  /\ UNCHANGED <<kind, phase, texLoaded, readyVars, programs, oceanTex,
                 nightTex, dragVars,
                 serverVars, pageVars,
                 scriptVars>>

\* the load of a clouds candidate fails: the next candidate, then the
\* procedural texture
CloudsOnError(url) ==
  /\ kind = "standard"
  /\ url \in Loading \cap {CloudsWebp, CloudsPng}
  /\ texFailed' = texFailed \cup {url}
  /\ CASE url = CloudsWebp ->
            /\ texRequested' = texRequested \cup {CloudsPng}
            /\ UNCHANGED <<earthMat, cloudsTex, cloudMeshes, warnings>>
       [] url = CloudsPng ->
            /\ warnings' = warnings \cup {MissingClouds}
            /\ setupClouds(ProceduralClouds)
            /\ UNCHANGED texRequested
  /\ UNCHANGED <<kind, phase, texLoaded, readyVars, programs, oceanTex,
                 nightTex, dragVars,
                 serverVars, pageVars,
                 scriptVars>>

\* the shader globe's setupClouds: the texture is kept and a clouds mesh
\* added; the earth material is not touched
ShaderCloudsOnLoad ==
  /\ ShaderCloudsJpg \in Loading
  /\ texLoaded' = texLoaded \cup {ShaderCloudsJpg}
  /\ cloudsTex' = ShaderCloudsJpg
  /\ cloudMeshes' = Append(cloudMeshes, ShaderCloudsJpg)
  /\ UNCHANGED <<kind, phase, texRequested, texFailed, readyVars, earthMat,
                 programs, oceanTex, nightTex, warnings, dragVars,
                 serverVars, pageVars,
                 scriptVars>>

\* the shader globe's clouds load fails: no onError callback
ShaderCloudsFails ==
  /\ ShaderCloudsJpg \in Loading
  /\ texFailed' = texFailed \cup {ShaderCloudsJpg}
  /\ UNCHANGED <<kind, phase, texRequested, texLoaded, readyVars, sceneVars,
                 warnings, dragVars,
                 serverVars, pageVars,
                 scriptVars>>

\* the older HeroGlobe component: init() starts one load per layer and calls
\* animate(), which renders the first frame; it has no ready event
LegacyGlobeInit ==
  /\ kind = "legacy"
  /\ phase = "mounted"
  /\ phase' = "running"
  /\ renderEarth(NoMaps, ProgramKey(NoMaps), TRUE)
  /\ texRequested' = {AlbedoJpg, BumpJpg, NightLightsPng, CloudsPng}
  /\ rotationX' = InitialPitch(kind)
  /\ rotationY' = 0
  /\ UNCHANGED <<kind, texLoaded, texFailed, readyVars, oceanTex, nightTex,
                 cloudsTex, cloudMeshes, warnings, rotVelY, pointerVars,
                 serverVars, pageVars,
                 scriptVars>>

\* its animate, as a later animation-frame callback
LegacyAnimate ==
  /\ kind = "legacy"
  /\ phase = "running"
  /\ renderEarth(earthMat, ProgramKey(earthMat), TRUE)
  /\ rotVelY' = Decay(rotVelY)
  /\ UNCHANGED <<kind, phase, loaderVars, readyVars, oceanTex, nightTex,
                 cloudsTex, cloudMeshes, warnings, rotationX, rotationY, pointerVars,
                 serverVars, pageVars,
                 scriptVars>>

LegacyAlbedoOnLoad ==
  /\ kind = "legacy"
  /\ AlbedoJpg \in Loading
  /\ texLoaded' = texLoaded \cup {AlbedoJpg}
  /\ earthMat' = [earthMat EXCEPT !.map = AlbedoJpg, !.needsUpdate = TRUE]
  /\ UNCHANGED <<kind, phase, texRequested, texFailed, readyVars, programs,
                 oceanTex, nightTex, cloudsTex, cloudMeshes, warnings,
                 dragVars,
                 serverVars, pageVars,
                 scriptVars>>

LegacyAlbedoOnError ==
  /\ kind = "legacy"
  /\ AlbedoJpg \in Loading
  /\ texFailed' = texFailed \cup {AlbedoJpg}
  /\ warnings' = warnings \cup {MissingLegacyAlbedo}
  /\ UNCHANGED <<kind, phase, texRequested, texLoaded, readyVars, sceneVars,
                 dragVars,
                 serverVars, pageVars,
                 scriptVars>>

\* the land bump map, or the bathymetry texture its onError asks for
LegacyBumpOnLoad(url) ==
  /\ kind = "legacy"
  /\ url \in Loading \cap {BumpJpg, BathyPng}
  /\ texLoaded' = texLoaded \cup {url}
  /\ IF url = BathyPng
       THEN /\ earthMat' = [earthMat EXCEPT !.bumpMap = url,
                                            !.bumpScale = "0.015",
                                            !.roughnessMap = url,
                                            !.metalnessMap = url,
                                            !.needsUpdate = TRUE]
            /\ oceanTex' = url
       ELSE /\ earthMat' = [earthMat EXCEPT !.bumpMap = url,
                                            !.bumpScale = "0.035",
                                            !.needsUpdate = TRUE]
            /\ UNCHANGED oceanTex
  /\ UNCHANGED <<kind, phase, texRequested, texFailed, readyVars, programs,
                 nightTex, cloudsTex, cloudMeshes, warnings, dragVars,
                 serverVars, pageVars,
                 scriptVars>>

LegacyBumpOnError(url) ==
  /\ kind = "legacy"
  /\ url \in Loading \cap {BumpJpg, BathyPng}
  /\ texFailed' = texFailed \cup {url}
  /\ IF url = BumpJpg
       THEN /\ texRequested' = texRequested \cup {BathyPng}
            /\ UNCHANGED warnings
       ELSE /\ warnings' = warnings \cup {MissingLegacyBump}
            /\ UNCHANGED texRequested
  /\ UNCHANGED <<kind, phase, texLoaded, readyVars, sceneVars, dragVars,
                 serverVars, pageVars,
                 scriptVars>>

LegacyNightOnLoad ==
  /\ kind = "legacy"
  /\ NightLightsPng \in Loading
  /\ texLoaded' = texLoaded \cup {NightLightsPng}
  /\ earthMat' = [earthMat EXCEPT !.emissiveMap = NightLightsPng,
                                  !.needsUpdate = TRUE]
  /\ nightTex' = NightLightsPng
  /\ UNCHANGED <<kind, phase, texRequested, texFailed, readyVars, programs,
                 oceanTex, cloudsTex, cloudMeshes, warnings, dragVars,
                 serverVars, pageVars,
                 scriptVars>>

LegacyNightOnError ==
  /\ kind = "legacy"
  /\ NightLightsPng \in Loading
  /\ texFailed' = texFailed \cup {NightLightsPng}
  /\ warnings' = warnings \cup {MissingNightLights}
  /\ UNCHANGED <<kind, phase, texRequested, texLoaded, readyVars, sceneVars,
                 dragVars,
                 serverVars, pageVars,
                 scriptVars>>

\* what both clouds callbacks do with their texture: keep it, add a clouds
\* mesh, bind the uniforms of userData.shader when there is one
legacyCloudsSetup(tex) ==
  /\ cloudsTex' = tex
  /\ cloudMeshes' = Append(cloudMeshes, tex)
  /\ earthMat' =
       IF earthMat.shader.set
         THEN [earthMat EXCEPT !.shader.tClouds = tex, !.shader.hasClouds = 1]
         ELSE earthMat

LegacyCloudsOnLoad ==
  /\ kind = "legacy"
  /\ CloudsPng \in Loading
  /\ texLoaded' = texLoaded \cup {CloudsPng}
  /\ legacyCloudsSetup(CloudsPng)
  /\ UNCHANGED <<kind, phase, texRequested, texFailed, readyVars, programs,
                 oceanTex, nightTex, warnings, dragVars,
                 serverVars, pageVars,
                 scriptVars>>

\* clouds.png is missing: a warning and the procedural texture
LegacyCloudsOnError ==
  /\ kind = "legacy"
  /\ CloudsPng \in Loading
  /\ texFailed' = texFailed \cup {CloudsPng}
  /\ warnings' = warnings \cup {MissingLegacyClouds}
  /\ legacyCloudsSetup(ProceduralClouds)
  /\ UNCHANGED <<kind, phase, texRequested, texLoaded, readyVars, programs,
                 oceanTex, nightTex, dragVars,
                 serverVars, pageVars,
                 scriptVars>>

(***************************************************************************)
(* The landing page and its globe mover.  Lengths are in half pixels.      *)
(***************************************************************************)
\* 1 (pixel), the least width and height of a target that can be selected
OnePx == 2

\* hysteresis to avoid rapid flipping near boundaries
SWITCH_COOLDOWN_MS == 120

\* the time between two readings of performance.now()
TickMs == SWITCH_COOLDOWN_MS \div 2

NoTarget == "null"
None == <<>>
Some(x) == <<x>>

Abs(n) == IF n < 0 THEN -n ELSE n
Max(a, b) == IF a < b THEN b ELSE a

\* Math.round of a length, in pixels
RoundPx(h) == (h + 1) \div 2

ZeroRect == [left |-> 0, top |-> 0, width |-> 0, height |-> 0]

\* el.getBoundingClientRect(): the box as the viewport shows it; all zero
\* for an element that is not rendered (display: none, or not in the document)
BoundingClientRect(box, inDocument, scroll) ==
  IF inDocument /\ box.shown
    THEN [left |-> box.left, top |-> box.top - scroll,
          width |-> box.width, height |-> box.height]
    ELSE ZeroRect

BoxOf(el) == IF el = "hero" THEN heroBox ELSE tryBox

\* getBoundingClientRect of a target, now
RectNow(el) == BoundingClientRect(BoxOf(el), pagePhase = "mounted", scrollTop)

\* a viewport wide enough for the try target (md:block), and a narrow one
\* where it is hidden
WideLayout ==
  [hero |-> [shown |-> TRUE, left |-> 0, top |-> 4, width |-> 8, height |-> 8],
   try |-> [shown |-> TRUE, left |-> 6, top |-> 20, width |-> 8, height |-> 8],
   innerHeight |-> 16]

NarrowLayout ==
  [hero |-> [shown |-> TRUE, left |-> 0, top |-> 2, width |-> 12,
             height |-> 12],
   try |-> [shown |-> FALSE, left |-> 0, top |-> 0, width |-> 0,
            height |-> 0],
   innerHeight |-> 16]

Layouts == {WideLayout, NarrowLayout}

\* the positions the scroll container comes to rest at or passes through
ScrollPositions == {0, 8, 16}

\* a comparison that lets a later candidate win a tie
CloserOrEqual(dist, best) == best = None \/ dist <= best[1].dist

\* selectNearestTarget replaces best by a candidate at distance dist when
\* there is no best yet or the candidate is strictly closer
Closer(dist, best) == best = None \/ dist < best[1].dist

\* the loop of selectNearestTarget over the candidates
RECURSIVE SelectLoop(_, _)
SelectLoop(candidates, best) ==
  IF candidates = <<>> THEN best
  ELSE LET el == Head(candidates)
           r == RectNow(el)
           \* twice |cy - centerY|
           dist == Abs(2 * r.top + r.height - innerHeight)
       IN IF r.width < OnePx \/ r.height < OnePx
            THEN SelectLoop(Tail(candidates), best)
            ELSE IF Closer(dist, best)
                   THEN SelectLoop(Tail(candidates),
                                   Some([el |-> el, dist |-> dist]))
                   ELSE SelectLoop(Tail(candidates), best)

selectNearestTarget ==
  LET candidates ==
        (IF heroTargetRef THEN <<"hero">> ELSE <<>>) \o
        (IF tryTargetRef THEN <<"try">> ELSE <<>>)
      best == SelectLoop(candidates, None)
  IN IF best = None THEN NoTarget ELSE best[1].el

\* a toRect that takes the base size from every rect it is given
toRectRebase(rect, animate) ==
  IF ~globeRef
    THEN UNCHANGED <<setters, baseWidth, baseHeight, globeTo>>
    ELSE LET bw == Max(1, RoundPx(rect.width))
             bh == Max(1, RoundPx(rect.height))
         IN /\ setters' = TRUE
            /\ baseWidth' = Some(bw)
            /\ baseHeight' = Some(bh)
            /\ globeTo' = Some([x |-> rect.left, y |-> rect.top,
                                sx |-> <<rect.width, bw>>,
                                sy |-> <<rect.height, bh>>,
                                animate |-> animate])

\* toRect: nothing without the globe element; else the setters are made,
\* the base size is taken from the first rect, and the globe is sent to the
\* rect, its scale being the rect's size over the base size
toRect(rect, animate) ==
  IF ~globeRef
    THEN UNCHANGED <<setters, baseWidth, baseHeight, globeTo>>
    ELSE LET init == baseWidth = None \/ baseHeight = None
             bw == IF init THEN Max(1, RoundPx(rect.width)) ELSE baseWidth[1]
             bh == IF init THEN Max(1, RoundPx(rect.height))
                   ELSE baseHeight[1]
         IN /\ setters' = TRUE
            /\ baseWidth' = Some(bw)
            /\ baseHeight' = Some(bh)
            /\ globeTo' = Some([x |-> rect.left, y |-> rect.top,
                                sx |-> <<rect.width, bw>>,
                                sy |-> <<rect.height, bh>>,
                                animate |-> animate])

\* a keepAligned that asks for a frame on every event
keepAlignedEveryEvent(queue) ==
  IF attached THEN Append(queue, "align") ELSE queue

\* keepAligned, as a listener: the queue of frame callbacks after it
keepAligned(queue) ==
  IF attached /\ ~alignScheduled THEN Append(queue, "align") ELSE queue

\* updateActiveTarget, called by scrollHandler and resizeHandler
updateActiveTarget(queue) ==
  IF handlersOn /\ ~switchScheduled THEN Append(queue, "switch") ELSE queue

\* the .hero-tilt elements of the template, by their index in els
HeroTilt == {0, 1, 2}

RECURSIVE GCD(_, _)
GCD(a, b) == IF b = 0 THEN a ELSE GCD(b, a % b)

\* a / b in lowest terms, for a >= 0 and b > 0
Ratio(a, b) == <<a \div GCD(a, b), b \div GCD(a, b)>>

Min(a, b) == IF a < b THEN a ELSE b

\* an inline style that sets no transform, and the style.transform values
\* "none" and `rotateX(${rot}deg) translateZ(${dz}px)`
NoTransform == [fn |-> "", rot |-> <<0, 1>>, dz |-> <<0, 1>>]
TransformNone == [fn |-> "none", rot |-> <<0, 1>>, dz |-> <<0, 1>>]
RotateTranslate(rot, dz) ==
  [fn |-> "rotateX translateZ", rot |-> rot, dz |-> dz]

NoStyle == [animation |-> "", opacity |-> "", transform |-> NoTransform]

\* the transform updateTilt gives to item j when the root is scrolled to y
\* and is h high: with p = min(1, y / (h * 0.6)) and t = max(0, p - j * 0.06),
\* rot is (1 - t) * 8 and dz is (1 - t) * 60; here in 300 * h ths
TiltOf(j, y, h) ==
  LET p == Min(300 * h, 500 * y)
      t == Max(0, p - 18 * j * h)
  IN RotateTranslate(Ratio(8 * (300 * h - t), 300 * h),
                     Ratio(60 * (300 * h - t), 300 * h))

\* updateTilt: the styles of the elements after it
updateTilt(y, h) ==
  [j \in HeroTilt |-> [elStyle[j] EXCEPT !.transform = TiltOf(j, y, h)]]

\* a page that enables the tilt as soon as one animation has ended
AnyEnded(n) == n >= 1

\* whether the animationend listener enables the tilt: every animation ended
AllEnded(n) == n = Cardinality(HeroTilt)

\* onMounted: attach(root), the initial placement is left to the next
\* frame, scrollHandler and resizeHandler become listeners
PageMounted ==
  /\ pagePhase = "setup"
  /\ pagePhase' = "mounted"
  /\ heroTargetRef' = TRUE
  /\ tryTargetRef' = TRUE
  /\ globeRef' = TRUE
  /\ attached' = TRUE
  /\ handlersOn' = TRUE
  /\ endListeners' = HeroTilt
  /\ elStyle' = [el \in HeroTilt |->
                  [elStyle[el] EXCEPT !.animation = "heroIn"]]
  /\ rafQueue' = Append(rafQueue, "place")
  /\ UNCHANGED <<heroBox, tryBox, innerHeight, scrollTop, perfNow, running,
                 alignScheduled, activeTarget, setters, baseWidth, baseHeight,
                 globeTo, switchScheduled, lastSwitchAt, heroRect, tryRect,
                 ghostVars, ended, tiltListeners, scrolledFlat, scrolledTilt,
                 serverVars, globeVars,
                 scriptVars>>

\* a scroll event of <main>: its listeners run in the order they were added,
\* keepAligned, then scrollHandler, then updateTilt
Scroll(pos) ==
  /\ pagePhase = "mounted"
  /\ running = <<>>
  /\ evts < MaxEvents
  /\ pos # scrollTop
  /\ scrollTop' = pos
  /\ rafQueue' = updateActiveTarget(keepAligned(rafQueue))
  /\ alignScheduled' = (alignScheduled \/ attached)
  /\ switchScheduled' = (switchScheduled \/ handlersOn)
  /\ evts' = IF attached THEN evts + 1 ELSE evts
  /\ elStyle' = IF tiltListeners > 0 THEN updateTilt(pos, innerHeight)
                ELSE elStyle
  /\ scrolledFlat' = (scrolledFlat \/ tiltListeners = 0)
  /\ scrolledTilt' = (scrolledTilt \/ tiltListeners > 0)
  /\ UNCHANGED <<pagePhase, heroTargetRef, tryTargetRef, globeRef, heroBox,
                 tryBox, innerHeight, perfNow, running, attached, activeTarget,
                 setters, baseWidth, baseHeight, globeTo, handlersOn,
                 lastSwitchAt, heroRect, tryRect, frameEvts, frameAligns,
                 switchLog, switchSent, ended, endListeners, tiltListeners,
                 serverVars, globeVars,
                 scriptVars>>

\* the heroIn animation of a .hero-tilt element ends: its listener, added
\* with once: true, counts it and resets the style; the last of them adds
\* updateTilt as a scroll listener and calls it
AnimationEnd(el) ==
  /\ pagePhase = "mounted"
  /\ running = <<>>
  /\ el \in endListeners
  /\ endListeners' = endListeners \ {el}
  /\ ended' = ended + 1
  /\ LET reset == [elStyle EXCEPT ![el].opacity = "1",
                                  ![el].transform = TransformNone]
     IN IF AllEnded(ended + 1)
          THEN /\ tiltListeners' = tiltListeners + 1
               /\ elStyle' = [j \in HeroTilt |->
                                [reset[j] EXCEPT
                                   !.transform = TiltOf(j, scrollTop,
                                                        innerHeight)]]
          ELSE /\ tiltListeners' = tiltListeners
               /\ elStyle' = reset
  /\ UNCHANGED <<pagePhase, layoutVars, frameVars, moverVars, switchVars,
                 ghostVars, scrolledFlat, scrolledTilt, serverVars,
                 globeVars,
                 scriptVars>>

\* a resize event of the window, after which the page is laid out as l:
\* keepAligned, then resizeHandler, which measures both targets again
Resize(l) ==
  /\ pagePhase = "mounted"
  /\ running = <<>>
  /\ evts < MaxEvents
  /\ <<l.hero, l.try, l.innerHeight>> # <<heroBox, tryBox, innerHeight>>
  /\ heroBox' = l.hero
  /\ tryBox' = l.try
  /\ innerHeight' = l.innerHeight
  /\ rafQueue' = updateActiveTarget(keepAligned(rafQueue))
  /\ alignScheduled' = (alignScheduled \/ attached)
  /\ switchScheduled' = (switchScheduled \/ handlersOn)
  /\ evts' = IF attached THEN evts + 1 ELSE evts
  /\ IF handlersOn
       THEN /\ heroRect' = IF heroTargetRef
                             THEN Some(BoundingClientRect(l.hero, TRUE,
                                                          scrollTop))
                             ELSE heroRect
            /\ tryRect' = IF tryTargetRef
                            THEN Some(BoundingClientRect(l.try, TRUE,
                                                         scrollTop))
                            ELSE tryRect
       ELSE UNCHANGED <<heroRect, tryRect>>
  /\ switchSent' = IF handlersOn THEN <<>> ELSE switchSent
  /\ UNCHANGED <<pagePhase, heroTargetRef, tryTargetRef, globeRef, scrollTop,
                 perfNow, running, attached, activeTarget, setters, baseWidth,
                 baseHeight, globeTo, handlersOn, lastSwitchAt, frameEvts,
                 frameAligns, switchLog, tiltVars, serverVars, globeVars,
                 scriptVars>>

\* time passes between two frames
PerfTick ==
  /\ pagePhase # "unmounted"
  /\ running = <<>>
  /\ perfNow < MaxTicks * TickMs
  /\ perfNow' = perfNow + TickMs
  /\ UNCHANGED <<pagePhase, layoutVars, rafQueue, running, moverVars,
                 switchVars, ghostVars, tiltVars, serverVars, globeVars,
                 scriptVars>>

\* the browser begins an animation frame: the callbacks requested so far are
\* the ones it will run, in order
FrameStart ==
  /\ running = <<>>
  /\ rafQueue # <<>>
  /\ running' = rafQueue
  /\ rafQueue' = <<>>
  /\ frameEvts' = evts
  /\ evts' = 0
  /\ frameAligns' = 0
  /\ UNCHANGED <<pagePhase, layoutVars, perfNow, moverVars, switchVars,
                 switchLog, switchSent, tiltVars, serverVars, globeVars,
                 scriptVars>>

\* the initial placement: the nearest target, placed at once, and both
\* rects cached
InitialPlacement ==
  /\ running # <<>> /\ Head(running) = "place"
  /\ running' = Tail(running)
  /\ LET next == selectNearestTarget
     IN IF next # NoTarget
          THEN /\ activeTarget' = next
               /\ toRect(RectNow(next), FALSE)
               /\ heroRect' = IF heroTargetRef THEN Some(RectNow("hero"))
                              ELSE heroRect
               /\ tryRect' = IF tryTargetRef THEN Some(RectNow("try"))
                             ELSE tryRect
          ELSE UNCHANGED <<activeTarget, setters, baseWidth, baseHeight,
                           globeTo, heroRect, tryRect>>
  /\ UNCHANGED <<pagePhase, layoutVars, perfNow, rafQueue, attached,
                 alignScheduled, handlersOn, switchScheduled, lastSwitchAt,
                 ghostVars, tiltVars, serverVars, globeVars,
                 scriptVars>>

\* the frame callback of keepAligned
AlignFrame ==
  /\ running # <<>> /\ Head(running) = "align"
  /\ running' = Tail(running)
  /\ alignScheduled' = FALSE
  /\ frameAligns' = frameAligns + 1
  /\ IF activeTarget # NoTarget
       THEN toRect(RectNow(activeTarget), TRUE)
       ELSE UNCHANGED <<setters, baseWidth, baseHeight, globeTo>>
  /\ UNCHANGED <<pagePhase, layoutVars, perfNow, rafQueue, attached,
                 activeTarget, switchVars, evts, frameEvts, switchLog,
                 switchSent, tiltVars, serverVars, globeVars,
                 scriptVars>>

\* an updateActiveTarget that always measures the target again
SwitchRectFresh(next) == RectNow(next)

\* the rect updateActiveTarget sends the globe to: the cached one if any
SwitchRect(next) ==
  IF next = "hero" /\ heroTargetRef /\ heroRect # None THEN heroRect[1]
  ELSE IF next = "try" /\ tryTargetRef /\ tryRect # None THEN tryRect[1]
  ELSE RectNow(next)

\* a switch with no cooldown
SwitchesAtOnce(next, current, t, last) == next # current

\* whether the frame callback of updateActiveTarget switches to next
Switches(next, current, t, last) ==
  next # current /\ t - last > SWITCH_COOLDOWN_MS

\* the frame callback of updateActiveTarget
SwitchFrame ==
  /\ running # <<>> /\ Head(running) = "switch"
  /\ running' = Tail(running)
  /\ switchScheduled' = FALSE
  /\ LET next == selectNearestTarget
     IN IF next # NoTarget /\ Switches(next, activeTarget, perfNow, lastSwitchAt)
          THEN /\ lastSwitchAt' = perfNow
               /\ switchLog' = Append(switchLog, perfNow)
               /\ switchSent' = Append(switchSent,
                                       [to |-> next,
                                        rect |-> SwitchRect(next)])
               /\ activeTarget' = next
               /\ toRect(SwitchRect(next), TRUE)
          ELSE UNCHANGED <<lastSwitchAt, switchLog, switchSent, activeTarget,
                           setters, baseWidth, baseHeight, globeTo>>
  /\ UNCHANGED <<pagePhase, layoutVars, perfNow, rafQueue, attached,
                 alignScheduled, handlersOn, heroRect, tryRect, evts,
                 frameEvts, frameAligns, tiltVars, serverVars, globeVars,
                 scriptVars>>

\* onBeforeUnmount of the page and of useGlobeMover: the listeners are
\* removed; the elements leave the document and the template refs are null;
\* frame callbacks already requested still run
PageUnmount ==
  /\ pagePhase = "mounted"
  /\ running = <<>>
  /\ pagePhase' = "unmounted"
  /\ attached' = FALSE
  /\ handlersOn' = FALSE
  /\ heroTargetRef' = FALSE
  /\ tryTargetRef' = FALSE
  /\ globeRef' = FALSE
  /\ UNCHANGED <<heroBox, tryBox, innerHeight, scrollTop, frameVars,
                 alignScheduled, activeTarget, setters, baseWidth, baseHeight,
                 globeTo, switchScheduled, lastSwitchAt, heroRect, tryRect,
                 ghostVars, tiltVars, serverVars, globeVars,
                 scriptVars>>

(***************************************************************************)
(* The Mapbox albedo render scripts                                        *)
(***************************************************************************)
NoStatus == -1

StyleJson == "style-standard.json"
MercatorPng == "world_mercator.png"
OutPng == "earth_albedo.png"

\* a test that finds every token present
NeverEmpty(v) == FALSE

\* [ -z "${MAPBOX_TOKEN:-}" ]: unset, or set to the empty string
IsEmpty(v) == v = Undefined \/ v = ""

\* the script ends with the given status
Exit(status) ==
  /\ scriptPc' = "exited"
  /\ exitStatus' = status

\* render-mapbox-albedo.sh up to the token check; with a token it makes its
\* directories and goes on to main
ShStart ==
  /\ script = "sh"
  /\ scriptPc = "start"
  /\ IF IsEmpty(environ.MAPBOX_TOKEN)
       THEN Exit(1)
       ELSE scriptPc' = "fetch" /\ UNCHANGED exitStatus
  /\ UNCHANGED <<script, environ, argv, token, fetched, rendered, written,
                 serverVars, globeVars, pageVars>>

\* fetch_style: curl -f into STYLE_JSON; under set -e a failed curl ends
\* the script with curl's status
ShFetchStyle(ok) ==
  /\ script = "sh"
  /\ scriptPc = "fetch"
  /\ fetched' = TRUE
  /\ written' = written \cup {StyleJson}
  /\ IF ok
       THEN scriptPc' = "patch" /\ UNCHANGED exitStatus
       ELSE Exit(22)
  /\ UNCHANGED <<script, environ, argv, token, rendered, serverVars,
                 globeVars, pageVars>>

\* patch_style_colors || true
ShPatchStyle ==
  /\ script = "sh"
  /\ scriptPc = "patch"
  /\ scriptPc' = "render"
  /\ UNCHANGED <<script, environ, argv, exitStatus, token, fetched, rendered,
                 written, serverVars, globeVars, pageVars>>

\* merc_png=$(render_mercator): the local renderer or the Docker one; the
\* function ends with an echo, so the script goes on either way
ShRender(ok) ==
  /\ script = "sh"
  /\ scriptPc = "render"
  /\ rendered' = TRUE
  /\ written' = IF ok THEN written \cup {MercatorPng} ELSE written
  /\ scriptPc' = "reproject"
  /\ UNCHANGED <<script, environ, argv, exitStatus, token, fetched,
                 serverVars, globeVars, pageVars>>

\* reproject_to_equirectangular "$merc_png": merc_png holds everything
\* render_mercator printed, its progress messages before the path, which
\* names no file; gdal_translate fails and, under set -e, ends the script
ShReproject ==
  /\ script = "sh"
  /\ scriptPc = "reproject"
  /\ Exit(1)
  /\ UNCHANGED <<script, environ, argv, token, fetched, rendered, written,
                 serverVars, globeVars, pageVars>>

\* what parseArgs comes to: it returns args, or leaves the process
Returns(tok) == [exit |-> NoStatus, token |-> tok]
Leaves(status) == [exit |-> status, token |-> Undefined]

\* the options of parseArgs whose value is the next argument
RECURSIVE ParseLoop(_, _, _)
ParseLoop(args, i, tok) ==
  IF i > Len(args) THEN Returns(tok)
  ELSE LET a == args[i]
           next == IF i + 1 <= Len(args) THEN args[i + 1] ELSE Undefined
       IN IF a = "--out"
            \* path.resolve(undefined) throws; main().catch exits with 1
            THEN IF next = Undefined THEN Leaves(1)
                 ELSE ParseLoop(args, i + 2, tok)
          ELSE IF a = "--token" THEN ParseLoop(args, i + 2, next)
          ELSE IF a = "--help" \/ a = "-h" THEN Leaves(0)
          ELSE ParseLoop(args, i + 1, tok)

\* a || b
Or(a, b) == IF Truthy(a) THEN a ELSE b

\* parseArgs(process.argv)
parseArgs(args, env) ==
  ParseLoop(args, 1, Or(Or(env.MAPBOX_TOKEN, env.MAPBOX_API_TOKEN), ""))

\* main of the node script up to the token check
NodeStart ==
  /\ script = "node"
  /\ scriptPc = "start"
  /\ LET parsed == parseArgs(argv, environ)
     IN IF parsed.exit # NoStatus
          THEN Exit(parsed.exit) /\ UNCHANGED token
          ELSE IF ~Truthy(parsed.token)
                 THEN Exit(1) /\ UNCHANGED token
                 ELSE /\ token' = parsed.token
                      /\ scriptPc' = "fetch"
                      /\ UNCHANGED exitStatus
  /\ UNCHANGED <<script, environ, argv, fetched, rendered, written,
                 serverVars, globeVars, pageVars>>

\* loadStyle; a rejection reaches main().catch, which exits with 1
NodeLoadStyle(ok) ==
  /\ script = "node"
  /\ scriptPc = "fetch"
  /\ fetched' = TRUE
  /\ IF ok
       THEN scriptPc' = "render" /\ UNCHANGED exitStatus
       ELSE Exit(1)
  /\ UNCHANGED <<script, environ, argv, token, rendered, written,
                 serverVars, globeVars, pageVars>>

\* patchStyleForRenderer, renderMercatorPng and the write of its image
NodeRender(ok) ==
  /\ script = "node"
  /\ scriptPc = "render"
  /\ rendered' = TRUE
  /\ IF ok
       THEN /\ written' = written \cup {MercatorPng}
            /\ scriptPc' = "reproject"
            /\ UNCHANGED exitStatus
       ELSE UNCHANGED written /\ Exit(1)
  /\ UNCHANGED <<script, environ, argv, token, fetched, serverVars,
                 globeVars, pageVars>>

\* the GDAL commands; runCmd throws when one fails
NodeReproject(ok) ==
  /\ script = "node"
  /\ scriptPc = "reproject"
  /\ IF ok
       THEN written' = written \cup {OutPng} /\ Exit(0)
       ELSE UNCHANGED written /\ Exit(1)
  /\ UNCHANGED <<script, environ, argv, token, fetched, rendered, serverVars,
                 globeVars, pageVars>>

(***************************************************************************)
(* Inputs                                                                  *)
(***************************************************************************)
\* values of the ab_variant cookie a request may carry
JarValues == {Undefined, "", "A", "B", "C"}

\* values of the session cookie a request may carry
SessionValues == {Undefined, "", "s1", "s2"}

ValidSpaced == <<" ", "B", "@", "a", ".", "a", " ">>
ValidPlain == <<"a", "@", "a", ".", "a">>
NoDot == <<"a", "@", "a">>

\* the requests clients send to POST /api/waitlist
SampleRequests ==
  { [body |-> NoBody, ip |-> Undefined],
    [body |-> Body(NoStr, Undefined), ip |-> "10.0.0.1"],
    [body |-> Body(Str(<<>>), "B"), ip |-> "10.0.0.1"],
    [body |-> Body(Str(ValidSpaced), Undefined), ip |-> "10.0.0.1"],
    [body |-> Body(Str(ValidPlain), "B"), ip |-> Undefined],
    [body |-> Body(Str(ValidPlain), "C"), ip |-> "10.0.0.1"],
    [body |-> Body(Str(NoDot), "A"), ip |-> "10.0.0.1"] }

\* the two requests used where the waitlist only runs alongside the others
FewRequests ==
  { [body |-> Body(Str(ValidSpaced), Undefined), ip |-> "10.0.0.1"],
    [body |-> Body(Str(NoDot), "A"), ip |-> Undefined] }

\* every string of n characters
StringsOfLen(n) == [1..n -> Chars]

(***************************************************************************)
(* Specifications                                                          *)
(***************************************************************************)
IdleReq == [pc |-> "idle", body |-> NoBody, ip |-> Undefined, resp |-> NoResp]

InitCookies ==
  /\ jar \in JarValues
  /\ abLast = NoCall
  /\ authLast = NoCall
  /\ authSeen = [s \in SessionValues |-> NoCall]

\* the page before onMounted, laid out as l
InitPage(l) ==
  /\ pagePhase = "setup"
  /\ heroTargetRef = FALSE
  /\ tryTargetRef = FALSE
  /\ globeRef = FALSE
  /\ heroBox = l.hero
  /\ tryBox = l.try
  /\ innerHeight = l.innerHeight
  /\ scrollTop = 0
  /\ perfNow = 0
  /\ rafQueue = <<>>
  /\ running = <<>>
  /\ attached = FALSE
  /\ alignScheduled = FALSE
  /\ activeTarget = NoTarget
  /\ setters = FALSE
  /\ baseWidth = None
  /\ baseHeight = None
  /\ globeTo = None
  /\ handlersOn = FALSE
  /\ switchScheduled = FALSE
  /\ lastSwitchAt = 0
  /\ heroRect = None
  /\ tryRect = None
  /\ evts = 0
  /\ frameEvts = 0
  /\ frameAligns = 0
  /\ switchLog = <<>>
  /\ switchSent = <<>>
  /\ ended = 0
  /\ endListeners = {}
  /\ tiltListeners = 0
  /\ elStyle = [el \in HeroTilt |-> NoStyle]
  /\ scrolledFlat = FALSE
  /\ scrolledTilt = FALSE

\* a globe component that has been mounted and has not run init() yet
InitGlobe ==
  /\ phase = "mounted"
  /\ texRequested = {}
  /\ texLoaded = {}
  /\ texFailed = {}
  /\ earthMat = NoMaps
  /\ oceanTex = Undefined
  /\ nightTex = Undefined
  /\ cloudsTex = Undefined
  /\ programs = {}
  /\ cloudMeshes = <<>>
  /\ albedoLoaded = FALSE
  /\ firstFrameRendered = FALSE
  /\ readyEmitted = FALSE
  /\ readyCount = 0
  /\ warnings = {}
  /\ rotationX = 0
  /\ rotationY = 0
  /\ rotVelY = 0
  /\ isDragging = FALSE
  /\ lastX = 0
  /\ lastY = 0
  /\ prevScrollY = 0
  /\ moves = 0
  /\ pointerDown = FALSE
  /\ movedIdle = FALSE

InitWaitlist ==
  /\ submissions = <<>>
  /\ reqs = [r \in ReqIds |-> IdleReq]
  /\ now = 0

\* a render script about to run in the environment env with the arguments
\* args
InitScript(which, env, args) ==
  /\ script = which
  /\ environ = env
  /\ argv = args
  /\ scriptPc = "start"
  /\ exitStatus = NoStatus
  /\ token = Undefined
  /\ fetched = FALSE
  /\ rendered = FALSE
  /\ written = {}

NoTokens == [MAPBOX_TOKEN |-> Undefined, MAPBOX_API_TOKEN |-> Undefined]

Init ==
  /\ InitWaitlist
  /\ InitCookies
  /\ kind = "standard"
  /\ InitGlobe
  /\ InitPage(WideLayout)
  /\ InitScript("sh", NoTokens, <<>>)

\* the server: every handler, any interleaving
Next ==
  \/ \E r \in ReqIds : WaitlistStart(r, FewRequests)
  \/ \E r \in ReqIds : WaitlistResume(r)
  \/ AbVariantMiddleware
  \/ \E session \in SessionValues : AuthStatus(session)


Spec == Init /\ [][Next]_vars

\* the waitlist handler alone, with the clock
NextWaitlist ==
  \/ \E r \in ReqIds : WaitlistStart(r, SampleRequests)
  \/ \E r \in ReqIds : WaitlistResume(r)
  \/ Tick

\* the client of the waitlist requests carries no ab_variant cookie
InitWaitlistSpec == Init /\ jar = Undefined

SpecWaitlist == InitWaitlistSpec /\ [][NextWaitlist]_vars

\* one POST /api/waitlist request whose email is any string of at most
\* MaxLen characters, or missing
InitEmail ==
  /\ submissions = <<>>
  /\ \E n \in 0..MaxLen :
     \E email \in {NoStr} \cup {Str(s) : s \in StringsOfLen(n)} :
       reqs = [r \in ReqIds |->
                 IF r = 1
                   THEN [pc |-> "readBody", body |-> Body(email, Undefined),
                         ip |-> Undefined, resp |-> NoResp]
                   ELSE IdleReq]
  /\ now = 0
  /\ jar = Undefined
  /\ abLast = NoCall
  /\ authLast = NoCall
  /\ authSeen = [s \in SessionValues |-> NoCall]
  /\ kind = "standard"
  /\ InitGlobe
  /\ InitPage(WideLayout)
  /\ InitScript("sh", NoTokens, <<>>)

NextEmail == WaitlistResume(1)

SpecEmail == InitEmail /\ [][NextEmail]_vars

\* a globe component of either kind, the server idle
InitGlobeSpec ==
  /\ InitWaitlist
  /\ jar = Undefined
  /\ abLast = NoCall
  /\ authLast = NoCall
  /\ authSeen = [s \in SessionValues |-> NoCall]
  /\ kind \in GlobeKinds
  /\ InitGlobe
  /\ InitPage(WideLayout)
  /\ InitScript("sh", NoTokens, <<>>)

NextGlobe ==
  \/ GlobeInit
  \/ ShaderGlobeInit
  \/ ShaderAlbedoOnLoad
  \/ ShaderAlbedoFails
  \/ ShaderCloudsOnLoad
  \/ ShaderCloudsFails
  \/ LegacyGlobeInit
  \/ LegacyAnimate
  \/ LegacyAlbedoOnLoad
  \/ LegacyAlbedoOnError
  \/ \E url \in Loading : LegacyBumpOnLoad(url)
  \/ \E url \in Loading : LegacyBumpOnError(url)
  \/ LegacyNightOnLoad
  \/ LegacyNightOnError
  \/ LegacyCloudsOnLoad
  \/ LegacyCloudsOnError
  \/ Animate
  \/ Unmount
  \/ \E url \in Loading : AlbedoOnLoad(url)
  \/ \E url \in Loading : AlbedoOnError(url)
  \/ \E url \in Loading : BumpOnLoad(url)
  \/ \E url \in Loading : BumpOnError(url)
  \/ \E url \in Loading : OptionalOnLoad(url)
  \/ \E url \in Loading : OptionalOnError(url)
  \/ \E url \in Loading : CloudsOnLoad(url)
  \/ \E url \in Loading : CloudsOnError(url)

SpecGlobe == InitGlobeSpec /\ [][NextGlobe]_vars

\* a globe component of either kind with the pointer, the window's scroll
\* and the frames, while its textures are still loading
NextDrag ==
  \/ GlobeInit
  \/ ShaderGlobeInit
  \/ LegacyGlobeInit
  \/ Animate
  \/ LegacyAnimate
  \/ Unmount
  \/ \E x \in PointerXs, y \in PointerYs : PointerDown(x, y)
  \/ \E x \in PointerXs, y \in PointerYs : PointerMove(x, y)
  \/ PointerUp
  \/ \E y \in ScrollYs : WindowScroll(y)

SpecDrag == InitGlobeSpec /\ [][NextDrag]_vars

\* the landing page: events, frames and time, the server idle and the globe
\* component not yet started
InitPageSpec ==
  /\ InitWaitlist
  /\ jar = Undefined
  /\ abLast = NoCall
  /\ authLast = NoCall
  /\ authSeen = [s \in SessionValues |-> NoCall]
  /\ kind = "standard"
  /\ InitGlobe
  /\ \E l \in Layouts : InitPage(l)
  /\ InitScript("sh", NoTokens, <<>>)

NextPage ==
  \/ PageMounted
  \/ \E pos \in ScrollPositions : Scroll(pos)
  \/ \E l \in Layouts : Resize(l)
  \/ PerfTick
  \/ FrameStart
  \/ InitialPlacement
  \/ AlignFrame
  \/ SwitchFrame
  \/ PageUnmount

SpecPage == InitPageSpec /\ [][NextPage]_vars

\* the landing page while its intro animations run and end; the tilt reads
\* no clock, and performance.now() is left at its first reading
NextTilt ==
  \/ PageMounted
  \/ \E pos \in ScrollPositions : Scroll(pos)
  \/ \E el \in HeroTilt : AnimationEnd(el)
  \/ \E l \in Layouts : Resize(l)
  \/ FrameStart
  \/ InitialPlacement
  \/ AlignFrame
  \/ SwitchFrame
  \/ PageUnmount

SpecTilt == InitPageSpec /\ [][NextTilt]_vars

\* the boxes a target may have when selectNearestTarget is called
SelectBoxes ==
  [shown : {TRUE}, left : {0}, top : -MaxTop..MaxTop, width : 0..MaxSize,
   height : 0..MaxSize]

\* the frame after onMounted, for every binding of the two target refs and
\* every pair of boxes: the initial placement is about to run
InitSelect ==
  /\ InitWaitlist
  /\ jar = Undefined
  /\ abLast = NoCall
  /\ authLast = NoCall
  /\ authSeen = [s \in SessionValues |-> NoCall]
  /\ kind = "standard"
  /\ InitGlobe
  /\ pagePhase = "mounted"
  /\ heroTargetRef \in BOOLEAN
  /\ tryTargetRef \in BOOLEAN
  /\ globeRef = TRUE
  /\ heroBox \in SelectBoxes
  /\ tryBox \in SelectBoxes
  /\ innerHeight = MaxSize
  /\ scrollTop = 0
  /\ perfNow = 0
  /\ rafQueue = <<>>
  /\ running = <<"place">>
  /\ attached = TRUE
  /\ alignScheduled = FALSE
  /\ activeTarget = NoTarget
  /\ setters = FALSE
  /\ baseWidth = None
  /\ baseHeight = None
  /\ globeTo = None
  /\ handlersOn = TRUE
  /\ switchScheduled = FALSE
  /\ lastSwitchAt = 0
  /\ heroRect = None
  /\ tryRect = None
  /\ evts = 0
  /\ frameEvts = 0
  /\ frameAligns = 0
  /\ switchLog = <<>>
  /\ switchSent = <<>>
  /\ ended = 0
  /\ endListeners = HeroTilt
  /\ tiltListeners = 0
  /\ elStyle = [el \in HeroTilt |-> [NoStyle EXCEPT !.animation = "heroIn"]]
  /\ scrolledFlat = FALSE
  /\ scrolledTilt = FALSE
  /\ InitScript("sh", NoTokens, <<>>)

NextSelect == InitialPlacement

SpecSelect == InitSelect /\ [][NextSelect]_vars

\* what a render script may find in its environment and its arguments
TokenValues == {Undefined, "", "tok"}
ArgWords == {"--token", "--help", "--out", "tok"}

\* either script, run to its end in any environment with up to MaxArgs
\* arguments; the server idle, the page and the globe not started
InitScriptSpec ==
  /\ InitWaitlist
  /\ jar = Undefined
  /\ abLast = NoCall
  /\ authLast = NoCall
  /\ authSeen = [s \in SessionValues |-> NoCall]
  /\ kind = "standard"
  /\ InitGlobe
  /\ InitPage(WideLayout)
  /\ \E which \in {"sh", "node"}, t \in TokenValues,
        api \in {Undefined, "tok"}, n \in 0..MaxArgs :
       \E args \in [1..n -> ArgWords] :
         InitScript(which, [MAPBOX_TOKEN |-> t, MAPBOX_API_TOKEN |-> api],
                    args)

NextScript ==
  \/ ShStart
  \/ \E ok \in BOOLEAN : ShFetchStyle(ok)
  \/ ShPatchStyle
  \/ \E ok \in BOOLEAN : ShRender(ok)
  \/ ShReproject
  \/ NodeStart
  \/ \E ok \in BOOLEAN : NodeLoadStyle(ok)
  \/ \E ok \in BOOLEAN : NodeRender(ok)
  \/ \E ok \in BOOLEAN : NodeReproject(ok)

SpecScript == InitScriptSpec /\ [][NextScript]_vars

(***************************************************************************)
(* What the claims speak of                                                *)
(***************************************************************************)
NonSpace(s) == {i \in DOMAIN s : ~IsSpace(s[i])}

\* s without its leading and trailing whitespace, lower-cased
Core(s) ==
  IF NonSpace(s) = {} THEN <<>>
  ELSE LET first == CHOOSE i \in NonSpace(s) : \A j \in NonSpace(s) : i <= j
           last == CHOOSE i \in NonSpace(s) : \A j \in NonSpace(s) : j <= i
       IN [k \in 1..(last - first + 1) |->
             IF s[first + k - 1] = "B" THEN "b" ELSE s[first + k - 1]]

\* something, '@', something, '.', something, with no whitespace
HasEmailShape(s) ==
  /\ \A i \in DOMAIN s : ~IsSpace(s[i])
  /\ \E i, j \in DOMAIN s :
       /\ 1 < i /\ i + 1 < j /\ j < Len(s)
       /\ s[i] = "@" /\ s[j] = "."

\* the body carries an email that is well formed once trimmed
WellFormed(body) ==
  body.present /\ body.email.defined /\ HasEmailShape(Core(body.email.chars))

Done(r) == reqs[r].pc = "done"
Accepted == {r \in ReqIds : Done(r) /\ reqs[r].resp.status = 200}

\* the step in which the handler of request r resumes and finishes
Finishes(r) == reqs[r].pc = "readBody" /\ reqs'[r].pc = "done"

\* C1: a finished POST /api/waitlist request was rejected with 400 exactly
\* when its email, trimmed and lower-cased, is missing, empty or lacks the
\* shape something@something.something without whitespace, and was accepted
\* with 200 exactly when it has that shape
C1_EmailValidation ==
  \A r \in ReqIds :
    Done(r) =>
      /\ reqs[r].resp.status = 200 <=> WellFormed(reqs[r].body)
      /\ reqs[r].resp.status = 400 <=> ~WellFormed(reqs[r].body)

\* an address accepted only thanks to the trimming
C1_Witness ==
  /\ Done(1)
  /\ reqs[1].resp.status = 200
  /\ reqs[1].body.email.chars # <<>>
  /\ IsSpace(reqs[1].body.email.chars[1])

\* C4: a request with an invalid email ends with the 400 "Invalid email"
\* error and leaves the submissions list exactly as it was
C4_RejectLeavesList ==
  [][\A r \in ReqIds :
       (Finishes(r) /\ ~WellFormed(reqs[r].body)) =>
         /\ reqs'[r].resp = InvalidEmailError
         /\ submissions' = submissions]_vars

\* a rejected request while the list already holds an entry
C4_Witness ==
  \E r \in ReqIds :
    /\ Done(r)
    /\ reqs[r].resp.status = 400
    /\ Len(submissions) > 0
    /\ \A i \in DOMAIN submissions : submissions[i].ts < now

\* C5: an accepted request returns { ok: true, message } and appends one
\* entry (its email, variant, timestamp, IP) at the end, the earlier entries
\* keep their content and order, and the list is as long as the number of
\* accepted requests
C5_AcceptAppendsOne ==
  /\ [][\A r \in ReqIds :
          (Finishes(r) /\ WellFormed(reqs[r].body)) =>
            /\ reqs'[r].resp.status = 200
            /\ reqs'[r].resp.ok
            /\ reqs'[r].resp.message = "Thanks! We will be in touch soon."
            /\ Len(submissions') = Len(submissions) + 1
            /\ SubSeq(submissions', 1, Len(submissions)) = submissions
            /\ LET e == submissions'[Len(submissions')]
               IN /\ e.email = Core(reqs[r].body.email.chars)
                  /\ e.variant = (IF reqs[r].body.variant \in {Undefined, ""}
                                    THEN "A" ELSE reqs[r].body.variant)
                  /\ e.ts = now
                  /\ e.ip = reqs[r].ip]_vars
  /\ [](Len(submissions) = Cardinality(Accepted))

\* two different entries, the later one pushed at a later time
C5_Witness ==
  /\ Len(submissions) = 2
  /\ submissions[1].email # submissions[2].email
  /\ submissions[1].ts < submissions[2].ts

DataOf(r) ==
  <<Core(reqs[r].body.email.chars),
    IF reqs[r].body.variant \in {Undefined, ""} THEN "A" ELSE reqs[r].body.variant>>

EntriesWith(d) ==
  {i \in DOMAIN submissions : <<submissions[i].email, submissions[i].variant>> = d}

\* C10: once every request has finished, whatever the interleaving, the list
\* holds one entry per accepted request, with that request's own email and
\* variant
C10_OneEntryPerAccepted ==
  (\A r \in ReqIds : Done(r)) =>
    /\ Len(submissions) = Cardinality(Accepted)
    /\ \A r \in Accepted :
         Cardinality(EntriesWith(DataOf(r))) =
           Cardinality({r2 \in Accepted : DataOf(r2) = DataOf(r)})

\* all finished, two accepted requests with different data, pushed in the
\* order opposite to the order of the request ids
C10_Witness ==
  /\ \A r \in ReqIds : Done(r)
  /\ {1, 2} \subseteq Accepted
  /\ DataOf(1) # DataOf(2)
  /\ <<submissions[1].email, submissions[1].variant>> = DataOf(2)

\* C2: a middleware call for a client that has the ab_variant cookie sends no
\* Set-Cookie and leaves the client's cookie as it was
C2_CookieKept ==
  (abLast.called /\ abLast.existing # Undefined) =>
    /\ abLast.setCookies = <<>>
    /\ jar = abLast.existing

\* C3: authenticated is true exactly when the request carries a session
\* cookie, whatever its value
C3_AuthenticatedIffPresent ==
  authLast.called =>
    (authLast.resp.authenticated <=> authLast.session # Undefined)

\* C6: a middleware call for a request without the ab_variant cookie sets it
\* exactly once, to "A" or "B", with max-age one year and path "/"
C6_FirstVisitSetsCookie ==
  (abLast.called /\ abLast.existing = Undefined) =>
    /\ Len(abLast.setCookies) = 1
    /\ abLast.setCookies[1].name = "ab_variant"
    /\ abLast.setCookies[1].value \in {"A", "B"}
    /\ abLast.setCookies[1].maxAge = 31536000
    /\ abLast.setCookies[1].path = "/"

C6_Witness ==
  /\ abLast.called
  /\ abLast.existing = Undefined
  /\ abLast.setCookies # <<>>
  /\ abLast.setCookies[1].value = "B"
  /\ jar = "B"

\* C7: user is an object with an id exactly when authenticated is true and
\* null exactly when it is false
C7_UserMatchesAuthenticated ==
  authLast.called =>
    LET resp == authLast.resp
    IN /\ resp.authenticated <=> (resp.user.type = "object" /\ resp.user.id # "")
       /\ ~resp.authenticated <=> resp.user = JsNull

\* a response to a request whose session cookie is the empty string
C7_Witness ==
  /\ authLast.called
  /\ authLast.session = ""
  /\ authLast.resp.user = JsNull

\* C9: an auth-status response equals the first response given to the same
\* session cookie, whatever was handled in between
C9_SameCookieSameResponse ==
  authLast.called =>
    /\ authSeen[authLast.session].called
    /\ authSeen[authLast.session].resp = authLast.resp

\* two requests with the same cookie, a waitlist entry pushed and a
\* middleware call made between them
C9_Witness ==
  /\ authLast.called
  /\ authSeen[authLast.session].at < authLast.at
  /\ abLast.called

AlbedoUrls == {AlbedoWebp, AlbedoPng, AlbedoJpg, ShaderAlbedoPng}

\* every albedo candidate the mounted globe has has failed and none is left
AllAlbedoFailed ==
  /\ phase # "mounted"
  /\ AlbedoUrls \cap Loading = {}
  /\ AlbedoUrls \cap texLoaded = {}

\* C8: the globe's albedo candidates are requested one after the other, each
\* only after the earlier ones failed; the first that loads becomes the map
\* and nothing more is requested; a warning is logged exactly when all of
\* them have failed
C8_AlbedoFallbackChain ==
  kind \in {"standard", "shader"} =>
    /\ \A u \in AlbedoUrls \cap texRequested :
         \A v \in (AlbedoUrls \cap texRequested) \ {u} :
           u \in texFailed \/ v \in texFailed
    /\ \A u \in AlbedoUrls \cap texLoaded :
         /\ earthMat.map = u
         /\ AlbedoUrls \cap texRequested \subseteq texFailed \cup {u}
    /\ (warnings \cap {MissingAlbedo} # {}) <=> AllAlbedoFailed

\* the chain of the HeroGlobe component of index.vue, candidate by candidate
AlbedoChainOfStandardGlobe ==
  kind = "standard" =>
    /\ AlbedoUrls \cap texRequested \subseteq {AlbedoWebp, AlbedoPng, AlbedoJpg}
    /\ phase # "mounted" => AlbedoWebp \in texRequested
    /\ AlbedoPng \in texRequested => AlbedoWebp \in texFailed
    /\ AlbedoJpg \in texRequested => {AlbedoWebp, AlbedoPng} \subseteq texFailed
    /\ AlbedoWebp \in texLoaded =>
         earthMat.map = AlbedoWebp /\ {AlbedoPng, AlbedoJpg} \cap texRequested = {}
    /\ AlbedoPng \in texLoaded =>
         earthMat.map = AlbedoPng /\ AlbedoJpg \notin texRequested
    /\ AlbedoJpg \in texLoaded => earthMat.map = AlbedoJpg
    /\ MissingAlbedo \in warnings <=>
         {AlbedoWebp, AlbedoPng, AlbedoJpg} \subseteq texFailed
    /\ C8_AlbedoFallbackChain

\* C11: every entry of the submissions list has variant "A" or "B", and a
\* request that supplies no variant is recorded with "A"
C11_VariantIsAOrB ==
  /\ \A i \in DOMAIN submissions : submissions[i].variant \in {"A", "B"}
  /\ \A r \in Accepted :
       reqs[r].body.variant = Undefined =>
         \E i \in DOMAIN submissions :
           /\ submissions[i].email = Core(reqs[r].body.email.chars)
           /\ submissions[i].variant = "A"

\* the load of an albedo candidate has completed with success
AlbedoLoadSucceeded == AlbedoUrls \cap texLoaded # {}

\* C12: ready is emitted at most once per mounted instance, and not before
\* the albedo texture has loaded and the first frame has been rendered
C12_ReadyOnceAfterBoth ==
  /\ readyCount <= 1
  /\ readyEmitted <=> readyCount = 1
  /\ readyCount > 0 =>
       albedoLoaded /\ AlbedoLoadSucceeded /\ firstFrameRendered

\* ready was emitted, and more frames and loads followed it
C12_Witness ==
  /\ readyCount = 1
  /\ AlbedoLoadSucceeded
  /\ Loading = {}
  /\ Len(cloudMeshes) = 1

\* C13: once the albedo load has succeeded and the first frame has been
\* rendered, in whichever order, ready has been emitted; while no albedo load
\* has succeeded, ready has not been emitted
C13_ReadyWhenBothDone ==
  kind \in {"standard", "shader"} =>
    /\ AlbedoLoadSucceeded /\ firstFrameRendered =>
         readyEmitted /\ readyCount = 1
    /\ ~AlbedoLoadSucceeded => ~readyEmitted /\ readyCount = 0

\* the last albedo candidate loaded after the first frame, and ready went out
C13_Witness ==
  /\ kind = "standard"
  /\ AlbedoJpg \in texLoaded
  /\ firstFrameRendered
  /\ readyEmitted

\* the globes whose earth material is a MeshStandardMaterial
HookedKinds == {"standard", "legacy"}

CloudsFiles == {CloudsWebp, CloudsPng}

\* the clouds files a component asks for, in order
CloudsCandidates(k) == IF k = "standard" THEN CloudsFiles ELSE {CloudsPng}

\* init() has run and no clouds load is in flight
CloudsSettled == phase # "mounted" /\ CloudsFiles \cap Loading = {}

\* the texture the claim says the clouds layer is made from
CloudsSource ==
  IF CloudsWebp \in texLoaded THEN CloudsWebp
  ELSE IF CloudsPng \in texLoaded THEN CloudsPng
  ELSE ProceduralClouds

CloudsLayerOnce ==
  /\ Len(cloudMeshes) <= 1
  /\ CloudsSettled => Len(cloudMeshes) = 1
  /\ Len(cloudMeshes) = 1 =>
       /\ CloudsSettled
       /\ cloudMeshes[1] = CloudsSource
       /\ cloudsTex = CloudsSource

\* C14: the clouds layer is set up exactly once (one clouds mesh), from
\* clouds.webp if it loads, otherwise from clouds.png if it loads, otherwise
\* from the procedural texture, which is generated only when both files fail
C14_CloudsSetUpOnce ==
  kind \in HookedKinds =>
    /\ CloudsLayerOnce
    /\ MissingClouds \in warnings \/ MissingLegacyClouds \in warnings
         <=> cloudsTex = ProceduralClouds
    /\ cloudsTex = ProceduralClouds => CloudsFiles \subseteq texFailed

\* C14, amended: as C14, but the procedural texture is generated only when
\* every clouds file of the component has failed: clouds.webp and clouds.png
\* in the HeroGlobe of index.vue, clouds.png alone in the older HeroGlobe,
\* which never asks for clouds.webp
C14_CloudsSetUpOncePerComponent ==
  kind \in HookedKinds =>
    /\ CloudsLayerOnce
    /\ MissingClouds \in warnings \/ MissingLegacyClouds \in warnings
         <=> cloudsTex = ProceduralClouds
    /\ CloudsFiles \cap texRequested \subseteq CloudsCandidates(kind)
    /\ CloudsPng \in texRequested /\ kind = "standard" =>
         CloudsWebp \in texFailed
    /\ cloudsTex = ProceduralClouds =>
         CloudsCandidates(kind) \subseteq texFailed

\* both files failed and the one clouds mesh uses the procedural texture
C14_Witness ==
  /\ kind = "standard"
  /\ CloudsFiles \subseteq texFailed
  /\ cloudMeshes = <<ProceduralClouds>>

BumpFiles == {BumpWebp, BumpPng, BumpJpg, BathyPng}

\* the chain the claim names
BumpChainClaimed == <<BumpWebp, BumpPng, BumpJpg, BathyPng>>

\* the chain of each component
BumpChain(k) ==
  IF k = "standard" THEN BumpChainClaimed ELSE <<BumpJpg, BathyPng>>

BumpWarning(k) == IF k = "standard" THEN MissingBump ELSE MissingLegacyBump

\* every requested candidate of the chain was requested after all the
\* earlier ones had failed
InChainOrder(chain) ==
  \A i \in DOMAIN chain :
    chain[i] \in texRequested =>
      \A j \in 1..(i - 1) : chain[j] \in texFailed

\* at most one candidate loaded, and it is the bump map
OneBumpMap ==
  /\ Cardinality(BumpFiles \cap texLoaded) <= 1
  /\ \A u \in BumpFiles \cap texLoaded : earthMat.bumpMap = u
  /\ BumpFiles \cap texLoaded = {} => earthMat.bumpMap = Undefined

\* the bathymetry texture is roughness and metalness map only as the bump
\* map in use (the generated roughness map may replace it as roughness map)
BathyOnlyWhenUsed ==
  /\ earthMat.metalnessMap = BathyPng <=> earthMat.bumpMap = BathyPng
  /\ earthMat.roughnessMap = BathyPng => earthMat.bumpMap = BathyPng
  /\ earthMat.bumpMap = BathyPng =>
       earthMat.roughnessMap \in {BathyPng, RoughnessPng}
  /\ oceanTex = BathyPng <=> earthMat.bumpMap = BathyPng

\* C15: the bump map is resolved through the chain earth_bump.webp,
\* earth_bump.png, earth_bump.jpg, ne_bathy.png: each is requested only after
\* all earlier ones failed, at most one is assigned as bump map, the
\* bathymetry texture is roughness and metalness map only when it is the one
\* used, and the missing-bump warning is logged only when all four failed
C15_BumpChain ==
  kind \in HookedKinds =>
    /\ InChainOrder(BumpChainClaimed)
    /\ OneBumpMap
    /\ BathyOnlyWhenUsed
    /\ BumpWarning(kind) \in warnings => BumpFiles \subseteq texFailed

\* C15, amended: as C15 for the HeroGlobe of index.vue; in the older
\* HeroGlobe the chain is earth_bump.jpg, ne_bathy.png, and its warning is
\* logged only when these two failed
C15_BumpChainPerComponent ==
  kind \in HookedKinds =>
    /\ InChainOrder(BumpChain(kind))
    /\ BumpFiles \cap texRequested \subseteq
         {BumpChain(kind)[i] : i \in DOMAIN BumpChain(kind)}
    /\ OneBumpMap
    /\ BathyOnlyWhenUsed
    /\ BumpWarning(kind) \in warnings <=>
         \A i \in DOMAIN BumpChain(kind) : BumpChain(kind)[i] \in texFailed

\* the first three candidates failed and the bathymetry texture is in use
C15_Witness ==
  /\ kind = "standard"
  /\ {BumpWebp, BumpPng, BumpJpg} \subseteq texFailed
  /\ earthMat.bumpMap = BathyPng
  /\ earthMat.metalnessMap = BathyPng

\* C16: once the earth shader has been compiled (onBeforeCompile has run) and
\* the clouds texture has been set up, in either order, the shader's hasClouds
\* uniform is 1 and its tClouds uniform is the clouds texture
C16_CloudShadowingBound ==
  kind \in HookedKinds /\ earthMat.shader.set /\ cloudsTex # Undefined =>
    /\ earthMat.shader.hasClouds = 1
    /\ earthMat.shader.tClouds = cloudsTex

\* the keepAligned frame callbacks requested and not yet run
PendingAligns ==
  {i \in DOMAIN rafQueue : rafQueue[i] = "align"} \cup
  {-i : i \in {j \in DOMAIN running : running[j] = "align"}}

\* where toRect sends the globe for a rect, animated
SentTo(rect) ==
  /\ globeTo' # None
  /\ globeTo'[1].x = rect.left
  /\ globeTo'[1].y = rect.top
  /\ globeTo'[1].sx[1] = rect.width
  /\ globeTo'[1].sy[1] = rect.height
  /\ globeTo'[1].animate

\* a step in which the keepAligned frame callback runs
AlignRuns == frameAligns' = frameAligns + 1

\* C17: at most one keepAligned frame callback is pending at any time; the
\* scroll and resize events between two frames, however many, cause exactly
\* one re-alignment in the next frame; and that re-alignment sends the globe
\* to the rect of the activeTarget read when the callback runs, or does
\* nothing when it is null
C17_AlignCoalesced ==
  /\ [](/\ Cardinality(PendingAligns) <= 1
        /\ alignScheduled <=> PendingAligns # {}
        /\ evts > 0 => alignScheduled
        /\ running = <<>> =>
             frameAligns = (IF frameEvts > 0 THEN 1 ELSE 0))
  /\ [][AlignRuns =>
          /\ UNCHANGED activeTarget
          /\ IF activeTarget = NoTarget \/ ~globeRef
               THEN UNCHANGED <<setters, baseWidth, baseHeight, globeTo>>
               ELSE SentTo(RectNow(activeTarget))]_vars

\* several events came before one frame, whose one re-alignment followed the
\* target that the initial placement had chosen earlier in the same frame
C17_Witness ==
  /\ frameEvts = MaxEvents
  /\ frameAligns = 1
  /\ running = <<"switch">>
  /\ switchLog = <<>>
  /\ activeTarget = "hero"
  /\ globeTo # None
  /\ globeTo[1].animate

\* a step in which the frame callback of updateActiveTarget runs
SwitchRuns ==
  running # <<>> /\ Head(running) = "switch" /\ running' = Tail(running)

\* C18: any two successive changes of activeTarget made by updateActiveTarget
\* are more than SWITCH_COOLDOWN_MS apart, and a frame callback that finds
\* the nearest target to be the current one changes nothing
C18_SwitchHysteresis ==
  /\ [](\A i \in 1..(Len(switchLog) - 1) :
          switchLog[i + 1] - switchLog[i] > SWITCH_COOLDOWN_MS)
  /\ [][SwitchRuns /\ selectNearestTarget = activeTarget =>
          UNCHANGED <<activeTarget, lastSwitchAt, switchLog, setters,
                      baseWidth, baseHeight, globeTo, heroRect, tryRect>>]_vars

\* updateActiveTarget has switched twice, and a later frame has run
C18_Witness ==
  /\ Len(switchLog) = 2
  /\ pagePhase = "mounted"
  /\ running = <<>>
  /\ rafQueue = <<>>
  /\ frameEvts > 0

\* no scroll or resize event is waiting for its frame: every requested frame
\* callback has run
Quiescent == pagePhase = "mounted" /\ rafQueue = <<>> /\ running = <<>>

\* C19: once the events have stopped and every pending frame callback has
\* run, activeTarget is the target that selectNearestTarget returns for the
\* scroll position the page is left at
C19_PositionedToNearest ==
  Quiescent => activeTarget = selectNearestTarget

TargetRef(el) == IF el = "hero" THEN heroTargetRef ELSE tryTargetRef

\* the target exists and is at least one pixel wide and high
Qualifies(el) ==
  /\ TargetRef(el)
  /\ RectNow(el).width >= OnePx
  /\ RectNow(el).height >= OnePx

\* twice the distance from the target's vertical centre to the viewport's
CentreDistance(el) ==
  Abs((2 * RectNow(el).top + RectNow(el).height) - innerHeight)

NearestQualifying ==
  IF Qualifies("hero") /\
       (Qualifies("try") => CentreDistance("hero") <= CentreDistance("try"))
    THEN "hero"
  ELSE IF Qualifies("try") THEN "try"
  ELSE NoTarget

\* C20: selectNearestTarget returns, among the existing targets at least one
\* pixel wide and high, the one whose vertical centre is closest to the
\* viewport's, the hero target on a tie, and null exactly when none qualifies
C20_SelectNearest ==
  /\ selectNearestTarget = NearestQualifying
  /\ selectNearestTarget = NoTarget <=>
       ~Qualifies("hero") /\ ~Qualifies("try")
  /\ running = <<>> => activeTarget = NearestQualifying

\* both targets qualify, at different places and at the same distance from
\* the centre, and the hero target was chosen
C20_Witness ==
  /\ running = <<>>
  /\ Qualifies("hero") /\ Qualifies("try")
  /\ CentreDistance("hero") = CentreDistance("try")
  /\ heroBox.top # tryBox.top
  /\ activeTarget = "hero"

\* a step in which a positioning call is made: the initial placement, the
\* frame callback of keepAligned or that of updateActiveTarget
PositioningRuns == running # <<>> /\ running' = Tail(running)

\* the base size, once set, is a whole number of pixels, at least 1
BaseSet(base) == base # None => base[1] \in Nat /\ base[1] >= 1

\* C21: the base size is taken from the first rect the mover is given and
\* never changes afterwards: once set, baseWidth and baseHeight are integers
\* of at least 1 and keep their values through every later positioning call,
\* every scale is the rect's size over that non-zero base, and while the
\* globe element is absent a positioning call changes nothing
C21_BaseSizeFixed ==
  /\ [](/\ BaseSet(baseWidth) /\ BaseSet(baseHeight)
        /\ (baseWidth = None) = (baseHeight = None)
        /\ globeTo # None =>
             /\ baseWidth # None /\ baseHeight # None
             /\ globeTo[1].sx[2] = baseWidth[1] /\ globeTo[1].sx[2] # 0
             /\ globeTo[1].sy[2] = baseHeight[1] /\ globeTo[1].sy[2] # 0)
  /\ [][/\ baseWidth # None => baseWidth' = baseWidth
        /\ baseHeight # None => baseHeight' = baseHeight
        /\ baseWidth = None /\ baseWidth' # None =>
             /\ globeTo = None /\ globeTo' # None
             /\ baseWidth'[1] = Max(1, RoundPx(globeTo'[1].sx[1]))
             /\ baseHeight'[1] = Max(1, RoundPx(globeTo'[1].sy[1]))
        /\ PositioningRuns /\ ~globeRef =>
             UNCHANGED <<setters, baseWidth, baseHeight, globeTo>>]_vars

\* the globe stands at a rect of another size than the one its base was taken
\* from, and a keepAligned frame callback has run after the globe element
\* was removed
C21_Witness ==
  /\ pagePhase = "unmounted"
  /\ frameAligns >= 1
  /\ activeTarget # NoTarget
  /\ globeTo # None
  /\ globeTo[1].sx[1] # 2 * baseWidth[1]

\* the cached rect of a target, if any
CachedRect(el) == IF el = "hero" THEN heroRect ELSE tryRect

\* a step in which updateActiveTarget changes activeTarget to el
SwitchesTo(el) ==
  SwitchRuns /\ activeTarget' # activeTarget /\ activeTarget' = el

\* C22: a switch made by updateActiveTarget to a target with a cached rect
\* animates the globe to that cached rect, which only the initial placement
\* and resizeHandler write; a freshly measured rect is used only when there is
\* no cached rect; so the switches to one target since the last resize all
\* sent the globe to the same rect, whatever the scroll position was
C22_ConsistentReturn ==
  /\ [](\A i, j \in DOMAIN switchSent :
          switchSent[i].to = switchSent[j].to =>
            switchSent[i].rect = switchSent[j].rect)
  /\ [][\A el \in {"hero", "try"} :
          /\ SwitchesTo(el) =>
               IF CachedRect(el) # None
                 THEN SentTo(CachedRect(el)[1])
                 ELSE SentTo(RectNow(el))
          /\ CachedRect(el)' # CachedRect(el) =>
               \/ /\ running # <<>> /\ Head(running) = "place"
                  /\ running' = Tail(running)
               \/ /\ running = <<>>
                  /\ <<heroBox, tryBox>>' # <<heroBox, tryBox>>]_vars

\* with no resize since, updateActiveTarget has switched to the try target
\* twice, and to the hero target in between; the globe was sent to the cached
\* rect of the try target, which is not the rect the target has now
C22_Witness ==
  /\ Len(switchSent) = 3
  /\ switchSent[1].to = "try" /\ switchSent[3].to = "try"
  /\ switchSent[2].to = "hero"
  /\ activeTarget = "try"
  /\ heroRect # None /\ tryRect # None
  /\ globeTo # None /\ globeTo[1].y = tryRect[1].top
  /\ RectNow("try") # tryRect[1]

\* a step in which a scroll event of <main> is delivered
ScrollEvent == scrollTop' # scrollTop

\* the .hero-tilt elements whose animationend event has reached its listener
AnimationEnded == IF pagePhase = "setup" THEN {} ELSE HeroTilt \ endListeners

\* C23: updateTilt is added as a scroll listener at most once, and exactly
\* when the animationend event has fired for every .hero-tilt element, in
\* the step of the last of them; until then no scroll event changes the
\* transform of any element, and from then on every scroll event sets the
\* transforms that updateTilt computes
C23_TiltAfterAnimationEnd ==
  /\ [](/\ tiltListeners \in {0, 1}
        /\ tiltListeners = 1 <=> AnimationEnded = HeroTilt
        /\ ended = Cardinality(AnimationEnded))
  /\ [][/\ tiltListeners' # tiltListeners =>
             /\ tiltListeners = 0 /\ tiltListeners' = 1
             /\ AnimationEnded # HeroTilt /\ AnimationEnded' = HeroTilt
        /\ ScrollEvent /\ tiltListeners = 0 =>
             \A el \in HeroTilt :
               elStyle'[el].transform = elStyle[el].transform
        /\ ScrollEvent /\ tiltListeners = 1 =>
             \A el \in HeroTilt :
               elStyle'[el].transform = TiltOf(el, scrollTop', innerHeight)
       ]_vars

\* a scroll event came before the last animation ended and left the
\* transforms alone; now every animation has ended and a later scroll event
\* has tilted the elements for the new scroll position
C23_Witness ==
  /\ scrolledFlat
  /\ scrolledTilt
  /\ tiltListeners = 1
  /\ scrollTop # 0
  /\ evts > 0
  /\ \A el \in HeroTilt :
       elStyle[el].transform = TiltOf(el, scrollTop, innerHeight)
  /\ elStyle[0].transform # elStyle[2].transform

\* a step in which a pointer move is delivered
MoveEvent == moves' = moves + 1

\* C24: whatever pointer-down, pointer-move, pointer-up, scroll and frame
\* events there have been, the pitch lies within 0.6 rad either way; and a
\* pointer move changes the rotation only when the last down on the canvas
\* was followed by no up
C24_PitchClampedDragOnly ==
  /\ [](-PitchLimit <= rotationX /\ rotationX <= PitchLimit)
  /\ [][/\ MoveEvent /\ <<rotationX, rotationY>>' # <<rotationX, rotationY>>
             => pointerDown
        /\ rotationX' # rotationX /\ phase # "mounted" => MoveEvent
       ]_vars

\* a pointer move came while no drag was in progress; a drag has pitched the
\* globe as far as it goes, and an up has ended it
C24_Witness ==
  /\ phase = "running"
  /\ moves = MaxMoves
  /\ ~pointerDown
  /\ movedIdle
  /\ rotationX \in {PitchLimit, -PitchLimit}

\* an argument --token that a value follows
TokenArgument ==
  \E i \in 1..(Len(argv) - 1) : argv[i] = "--token"

\* the environment does not provide the variable, or provides it empty
NotProvided(v) == v \in {Undefined, ""}

\* no MAPBOX_TOKEN is provided, by the environment or by --token
NoMapboxToken == NotProvided(environ.MAPBOX_TOKEN) /\ ~TokenArgument

\* nothing was fetched, rendered or written
NothingDone == ~fetched /\ ~rendered /\ written = {}

NoTokenAtAll ==
  /\ NoMapboxToken
  /\ script = "node" => NotProvided(environ.MAPBOX_API_TOKEN)

\* --help or -h is among the arguments of the node script
HelpAmongArguments ==
  script = "node" /\ \E i \in DOMAIN argv : argv[i] \in {"--help", "-h"}

====
